---- MODULE Spec2Model ----
(***************************************************************************)
(* Verification model of sylphxltd/silk: the Remix critical-CSS collector, *)
(* the Vite plugin's rule registry, the AssemblyScript class-name          *)
(* transform, the cascade LayerManager, mergeStyles / createCompoundVariant*)
(* and the nesting transformer's groupRulesBySelector.                     *)
(*                                                                         *)
(* JavaScript strings are TLA+ strings (Len, SubSeq and \o act on them);   *)
(* a JavaScript Map or Set is a sequence in insertion order; a plain       *)
(* object is a sequence of [k, v] entries in insertion order.              *)
(***************************************************************************)
EXTENDS Integers, Sequences, FiniteSets, TLC

VARIABLES
  \* Remix SSR (src/unnamed/part_000)
  registry,     \* the shared cssRules Map of @sylphx/silk: sequence of [k, v]
  reqPc,        \* per request: "idle" | "extracted"
  reqCss,       \* per request: the class names whose rules are in its css string
  dropped,      \* class names cleared by a cleanup() whose css did not hold them
  \* Vite plugin (src/packages/vite-plugin/src/index.ts)
  cssRules,     \* className -> rule Map: sequence of [k, v]
  isBuild,      \* config.command === 'build'
  lastReturn,   \* what the last transform() call did: "none" | "null" | "code" | "rejected"
  lastCall,     \* the arguments of the last transform() call and what Babel did in it
  \* LayerManager (src/packages/core/src/layers.ts)
  lmConfig,     \* this.config
  lmRules,      \* this.rules: Map<CascadeLayer, Set<string>>
  lmAdded,      \* the add() calls made since construction or clear(), in order
  \* mergeStyles (src/packages/core/src/merge-styles.ts)
  msArgs,       \* the arguments of the last mergeStyles call
  msResult,     \* what it returned
  \* createCompoundVariant (src/packages/core/src/merge-styles.ts)
  cvConfig,     \* the config the variant function was created with
  cvCalled,     \* whether the variant function has been called
  cvProps,      \* the props of its last call
  cvMatched,    \* positions of the compound variants whose style was pushed
  cvStyles,     \* the `styles` array handed to mergeStyles
  cvResult,     \* the style returned
  \* groupRulesBySelector (src/unnamed/part_002)
  grRules,      \* the rules of the last groupRulesBySelector call
  grGrouped,    \* the Map it returned: sequence of [k, v], v = [base, nested]
  \* AssemblyScript transform (src/unnamed/part_008)
  tsCalls,      \* the calls made so far: [fn, styles, prefix, result]
  \* generateNestedCSS (src/unnamed/part_002)
  gnArgs,       \* the arguments of the last generateNestedCSS call
  gnResult,     \* the text it returned
  \* convertToNestedCSS (src/unnamed/part_002)
  cvtLines,     \* the lines of the css text of the last call
  cvtConfig,    \* its config
  cvtGrouped,   \* the Map its groupRulesBySelector call returned
  cvtResult,    \* the text it returned
  \* optimizeCSSWithLightning (src/packages/core/src/production-node.ts)
  lightningcss,        \* module variable: "null" or "module"
  wasmInitialized,     \* module variable
  optPc,               \* per call: idle, importing, initializing, loaded, done
  optCss,              \* per call: its css argument
  optLightning,        \* per call: what loadLightningCSS returned
  optResult,           \* per call: the promise's state and value
  optFailed,           \* per call: the engine failed in this call (import, init or transform)
  initInvocations,     \* how often lightningcss.default() was invoked
  transformBeforeInit, \* transform() was invoked while initialisation had not completed
  \* ClassNameGenerator (packages/core/src/selectors.ts)
  cngConfig,    \* the generator's options
  cngCache,     \* key -> name, what getAll() returns
  cngCounter,   \* the sequence counter
  cngReturned,  \* the <<key, name>> pairs generate() returned since construction or reset()
  cngIssued,    \* the <<key, name>> pairs generate() returned since construction
  cngLastOp,    \* the last operation on the generator
  \* Colour scales (packages/core/src/colors.ts)
  csArgs,       \* the arguments of the last createColorScale call
  csScale,      \* the array it returned
  \* Virtual-module Vite plugin (src/unnamed/part_006)
  vmGeneratedCSS, \* generatedCSS: [isNull, text]
  vmIsDevMode,    \* isDevMode
  vmCalls,        \* the buildStart / handleHotUpdate calls that started a scan, in start order
  vmLastSuccess,  \* the CSS of the scan that resolved last: [isNull, text]
  vmHotReturn,    \* the last handleHotUpdate call: "none" | "undefined" | "pending" | "settled"
  \* Svelte bindings (src/packages/svelte-bindings/src/index.ts)
  svArgs,         \* the arguments of the last mergeStyles call of the bindings
  svResult,       \* the object it returned
  \* Vite plugin, HTML and bundle (src/packages/vite-plugin/src/index.ts)
  vbOptions,      \* the options silk() was called with
  vbPage,         \* the page transformIndexHtml returned last ("" before any)
  vbBundle,       \* the output bundle: fileName -> source
  vbGenerated,    \* generateBundle for this bundle: "no" | "returned" (early) | "emitted"
  \* mergeStyles on object references (src/packages/core/src/merge-styles.ts)
  hpHeap,         \* the objects: the caller's first, then those of the last call
  hpArgs,         \* the arguments of the last call: references or false
  hpResult        \* the address of the object the last call returned, 0 before any

ssrVars == <<registry, reqPc, reqCss, dropped>>
viteVars == <<cssRules, isBuild, lastReturn, lastCall>>
layerVars == <<lmConfig, lmRules, lmAdded>>
mergeVars == <<msArgs, msResult>>
variantVars == <<cvConfig, cvCalled, cvProps, cvMatched, cvStyles, cvResult>>
nestingVars == <<grRules, grGrouped>>
transformVars == <<tsCalls>>
nestedCSSVars == <<gnArgs, gnResult>>
convertVars == <<cvtLines, cvtConfig, cvtGrouped, cvtResult>>
lightningVars == <<lightningcss, wasmInitialized, optPc, optCss, optLightning, optResult, optFailed,
                   initInvocations, transformBeforeInit>>
generatorVars == <<cngConfig, cngCache, cngCounter, cngReturned, cngIssued, cngLastOp>>
colorVars == <<csArgs, csScale>>
virtualVars == <<vmGeneratedCSS, vmIsDevMode, vmCalls, vmLastSuccess, vmHotReturn>>
svelteVars == <<svArgs, svResult>>
bundleVars == <<vbOptions, vbPage, vbBundle, vbGenerated>>
heapVars == <<hpHeap, hpArgs, hpResult>>

(***************************************************************************)
(* Bounds                                                                  *)
(***************************************************************************)
NumRequests == 2
MaxPairs == 2
MaxAdds == 3
MaxBatch == 2
MaxStyles == 3
MaxCompounds == 2
MaxRules == 3
MaxCalls == 2
MaxNested == 2
MaxLines == 3
MaxOptCalls == 2
MaxGenerated == 3
MaxSteps == 9
MaxScans == 3

(***************************************************************************)
(* Generic helpers: sequences, JavaScript Map                              *)
(***************************************************************************)
Range(s) == {s[i] : i \in 1..Len(s)}

RECURSIVE SeqsUpTo(_, _)
SeqsUpTo(S, n) ==
  IF n = 0 THEN {<<>>}
  ELSE LET shorter == SeqsUpTo(S, n - 1)
       IN shorter \cup {Append(s, x) : s \in {t \in shorter : Len(t) = n - 1}, x \in S}

\* No call has been made yet.
NoCall == [called |-> FALSE]

MapKeys(m) == {m[i].k : i \in 1..Len(m)}
MapHas(m, key) == key \in MapKeys(m)
MapGet(m, key) == (CHOOSE i \in 1..Len(m) : m[i].k = key)
MapGetV(m, key) == m[MapGet(m, key)].v

\* Map.prototype.set: an existing key keeps its position and takes the new
\* value; a new key is appended.
MapSet(m, key, val) ==
  IF MapHas(m, key)
  THEN [i \in 1..Len(m) |-> IF m[i].k = key THEN [k |-> key, v |-> val] ELSE m[i]]
  ELSE Append(m, [k |-> key, v |-> val])

(***************************************************************************)
(* JavaScript string helpers                                               *)
(***************************************************************************)
CharAt(s, i) == SubSeq(s, i, i)

\* Array.prototype.join
RECURSIVE Join(_, _)
Join(parts, sep) ==
  IF parts = <<>> THEN ""
  ELSE IF Len(parts) = 1 THEN parts[1]
  ELSE parts[1] \o sep \o Join(Tail(parts), sep)

IsSpace(c) == c \in {" ", "\n", "\t"}

\* String.prototype.trim
RECURSIVE TrimStartAt(_, _)
TrimStartAt(s, i) ==
  IF i > Len(s) THEN i ELSE IF IsSpace(CharAt(s, i)) THEN TrimStartAt(s, i + 1) ELSE i

RECURSIVE TrimEndAt(_, _)
TrimEndAt(s, j) ==
  IF j < 1 THEN j ELSE IF IsSpace(CharAt(s, j)) THEN TrimEndAt(s, j - 1) ELSE j

Trim(s) == SubSeq(s, TrimStartAt(s, 1), TrimEndAt(s, Len(s)))

\* The positions of the separator in s, ascending, with 0 in front and
\* Len(s) + 1 behind.
SplitCuts(s, sep) ==
  LET at == {i \in 1..Len(s) : CharAt(s, i) = sep}
  IN [k \in 1..(Cardinality(at) + 2) |->
        IF k = 1 THEN 0
        ELSE IF k = Cardinality(at) + 2 THEN Len(s) + 1
        ELSE CHOOSE i \in at : Cardinality({j \in at : j < i}) = k - 2]

\* String.prototype.split(sep) for a one-character separator
Split(s, sep) ==
  LET cuts == SplitCuts(s, sep)
  IN [k \in 1..(Len(cuts) - 1) |-> SubSeq(s, cuts[k] + 1, cuts[k + 1] - 1)]

\* String.prototype.indexOf(pat): 1-based, 0 when absent
IndexOf(s, pat) ==
  LET hits == {i \in 1..(Len(s) - Len(pat) + 1) : SubSeq(s, i, i + Len(pat) - 1) = pat}
  IN IF hits = {} THEN 0 ELSE CHOOSE i \in hits : \A j \in hits : i <= j

\* String.prototype.indexOf(pat, from), `from` 1-based
IndexFrom(s, pat, from) ==
  LET hits == {i \in from..(Len(s) - Len(pat) + 1) : SubSeq(s, i, i + Len(pat) - 1) = pat}
  IN IF hits = {} THEN 0 ELSE CHOOSE i \in hits : \A j \in hits : i <= j

\* String.prototype.replace(pat, rep) with a string pattern: the first
\* occurrence only; an empty pattern matches at the start.
ReplaceFirst(s, pat, rep) ==
  IF pat = "" THEN rep \o s
  ELSE IF IndexOf(s, pat) = 0 THEN s
  ELSE SubSeq(s, 1, IndexOf(s, pat) - 1) \o rep
         \o SubSeq(s, IndexOf(s, pat) + Len(pat), Len(s))

\* 1-based position of the first element of a sequence equal to x, 0 if none
FirstIndex(seq, x) ==
  IF \E i \in 1..Len(seq) : seq[i] = x
  THEN CHOOSE i \in 1..Len(seq) : seq[i] = x /\ \A j \in 1..(i - 1) : seq[j] # x
  ELSE 0

(***************************************************************************)
(* Remix SSR: extractCriticalCSS / cleanup against the shared registry     *)
(***************************************************************************)
Requests == 1..NumRequests
ClassNames == {"c1", "c2", "c3"}

\* The engine is content addressed: one class name stands for one rule text.
RuleOf(c) == "." \o c \o " { }"

\* css(): registers the rule of one atomic class in the shared registry.
CssCall(c) ==
  /\ registry' = MapSet(registry, c, RuleOf(c))
  /\ UNCHANGED <<reqPc, reqCss, dropped>>

\* extractCriticalCSS(): reads every rule of the registry into `css` and
\* returns it with the cleanup closure.
ExtractCriticalCSS(r) ==
  /\ reqPc[r] = "idle"
  /\ reqCss' = [reqCss EXCEPT ![r] = MapKeys(registry)]
  /\ reqPc' = [reqPc EXCEPT ![r] = "extracted"]
  /\ UNCHANGED <<registry, dropped>>

\* The values process.env.NODE_ENV is read as.
NodeEnvs == {"production", "development"}

\* cleanup(): clears the registry unless NODE_ENV is 'development'.
Cleanup(r, nodeEnv) ==
  /\ reqPc[r] = "extracted"
  /\ IF nodeEnv # "development"
     THEN /\ registry' = <<>>
          /\ dropped' = dropped \cup (MapKeys(registry) \ reqCss[r])
     ELSE UNCHANGED <<registry, dropped>>
  /\ reqPc' = [reqPc EXCEPT ![r] = "idle"]
  /\ UNCHANGED reqCss

InitSSR ==
  /\ registry = <<>>
  /\ reqPc = [r \in Requests |-> "idle"]
  /\ reqCss = [r \in Requests |-> {}]
  /\ dropped = {}

NextSSR ==
  \/ \E c \in ClassNames : CssCall(c) /\ UNCHANGED <<viteVars, layerVars, mergeVars, variantVars, nestingVars, transformVars, nestedCSSVars, convertVars, lightningVars, generatorVars, colorVars, virtualVars, svelteVars, bundleVars, heapVars>>
  \/ \E r \in Requests : ExtractCriticalCSS(r) /\ UNCHANGED <<viteVars, layerVars, mergeVars, variantVars, nestingVars, transformVars, nestedCSSVars, convertVars, lightningVars, generatorVars, colorVars, virtualVars, svelteVars, bundleVars, heapVars>>
  \/ \E r \in Requests, nodeEnv \in NodeEnvs : Cleanup(r, nodeEnv) /\ UNCHANGED <<viteVars, layerVars, mergeVars, variantVars, nestingVars, transformVars, nestedCSSVars, convertVars, lightningVars, generatorVars, colorVars, virtualVars, svelteVars, bundleVars, heapVars>>

(***************************************************************************)
(* Vite plugin: transform() and the className -> rule registry             *)
(***************************************************************************)
\* The module ids and sources transform() is offered.
Ids == {"a.tsx", "b.ts", "node_modules/x.ts", "a.css"}
Codes == {"silk", "other"}                 \* code.includes('@sylphx/silk')
IdIsTs(id) == id \in {"a.tsx", "b.ts", "node_modules/x.ts"}
IdInNodeModules(id) == id = "node_modules/x.ts"

\* What transformSync does: throws, returns no code, returns code without
\* silk metadata, or returns code with metadata.silk.cssRules.
BabelOutcomes == {"throw", "nocode", "nometa", "meta"}
ViteClassNames == {"c1", "c2", "c3", "c4"}
MetaLists == SeqsUpTo(ViteClassNames, MaxPairs)

\* The Babel plugin names an atomic class by the hash of its content, so the
\* [className, rule] pairs of its metadata bind one rule text to one name.
BabelRule(c) == "." \o c \o " { }"

\* for (const [className, rule] of metadata.silk.cssRules) cssRules.set(...)
RECURSIVE SetAll(_, _)
SetAll(m, meta) ==
  IF meta = <<>> THEN m
  ELSE SetAll(MapSet(m, Head(meta), BabelRule(Head(meta))), Tail(meta))

\* A transform() that rebuilds the registry from the file just compiled.
transform_replacing(code, id, outcome, meta) ==
  /\ IF \/ ~IdIsTs(id)
        \/ IdInNodeModules(id)
        \/ code # "silk"
        \/ outcome \in {"throw", "nocode"}
     THEN /\ lastReturn' = "null"
          /\ UNCHANGED cssRules
     ELSE /\ lastReturn' = "code"
          /\ cssRules' = IF outcome = "meta" THEN SetAll(<<>>, meta) ELSE cssRules
  /\ lastCall' = [called |-> TRUE, code |-> code, id |-> id, outcome |-> outcome]
  /\ UNCHANGED isBuild

configResolved(command) ==
  /\ isBuild' = (command = "build")
  /\ UNCHANGED <<cssRules, lastReturn, lastCall>>

\* A transform() without the try/catch around the Babel call.
transform_uncaught(code, id, outcome, meta) ==
  /\ IF \/ ~IdIsTs(id)
        \/ IdInNodeModules(id)
        \/ code # "silk"
        \/ outcome = "nocode"
     THEN /\ lastReturn' = "null"
          /\ UNCHANGED cssRules
     ELSE IF outcome = "throw"
     THEN /\ lastReturn' = "rejected"
          /\ UNCHANGED cssRules
     ELSE /\ lastReturn' = "code"
          /\ cssRules' = IF outcome = "meta" THEN SetAll(cssRules, meta) ELSE cssRules
  /\ lastCall' = [called |-> TRUE, code |-> code, id |-> id, outcome |-> outcome]
  /\ UNCHANGED isBuild

\* transform(code, id): the three early returns, then the Babel call inside
\* try/catch; `outcome` is what transformSync does and `meta` the class names
\* of its metadata.silk.cssRules.
transform(code, id, outcome, meta) ==
  /\ IF \/ ~IdIsTs(id)
        \/ IdInNodeModules(id)
        \/ code # "silk"
        \/ outcome \in {"throw", "nocode"}
     THEN /\ lastReturn' = "null"
          /\ UNCHANGED cssRules
     ELSE /\ lastReturn' = "code"
          /\ cssRules' = IF outcome = "meta" THEN SetAll(cssRules, meta) ELSE cssRules
  /\ lastCall' = [called |-> TRUE, code |-> code, id |-> id, outcome |-> outcome]
  /\ UNCHANGED isBuild

InitVite ==
  /\ cssRules = <<>>
  /\ isBuild = FALSE
  /\ lastReturn = "none"
  /\ lastCall = NoCall

NextVite ==
  \/ \E command \in {"build", "serve"} : configResolved(command) /\ UNCHANGED <<ssrVars, layerVars, mergeVars, variantVars, nestingVars, transformVars, nestedCSSVars, convertVars, lightningVars, generatorVars, colorVars, virtualVars, svelteVars, bundleVars, heapVars>>
  \/ \E code \in Codes, id \in Ids, outcome \in BabelOutcomes, meta \in MetaLists :
       transform(code, id, outcome, meta) /\ UNCHANGED <<ssrVars, layerVars, mergeVars, variantVars, nestingVars, transformVars, nestedCSSVars, convertVars, lightningVars, generatorVars, colorVars, virtualVars, svelteVars, bundleVars, heapVars>>

(***************************************************************************)
(* Cascade layers: LayerManager, organizeByLayers                          *)
(***************************************************************************)
\* type CascadeLayer
CascadeLayer == {"reset", "base", "tokens", "recipes", "utilities", "overrides"}

defaultLayerConfig ==
  [enabled |-> TRUE,
   order |-> <<"reset", "base", "tokens", "recipes", "utilities">>,
   defaultLayer |-> "utilities"]

\* The LayerConfig objects a manager is constructed with (every field optional).
LayerConfigs ==
  { [enabled |-> TRUE],
    [order |-> <<"utilities", "recipes", "tokens", "base", "overrides">>],
    [enabled |-> FALSE] }

\* { ...defaultLayerConfig, ...config }
SpreadConfig(config) ==
  [f \in DOMAIN defaultLayerConfig |->
     IF f \in DOMAIN config THEN config[f] ELSE defaultLayerConfig[f]]

\* The rule texts handed to add(); the last one is blank.
RuleTexts == {".a { }", ".b { }", " "}

generateLayerDefinition(config) ==
  LET c == SpreadConfig(config)
  IN IF ~c.enabled \/ Len(c.order) = 0 THEN ""
     ELSE "@layer " \o Join(c.order, ", ") \o ";"

wrapInLayer(css, layer, enabled) ==
  IF ~enabled \/ Trim(css) = "" THEN css
  ELSE "@layer " \o layer \o " {\n" \o css \o "\n}"

\* The parts pushed by the loop over `order`.
RECURSIVE LayerParts(_, _)
LayerParts(rules, order) ==
  IF order = <<>> THEN <<>>
  ELSE LET layer == Head(order)
           rest == LayerParts(rules, Tail(order))
       IN IF MapHas(rules, layer) /\ Len(MapGetV(rules, layer)) > 0
          THEN <<wrapInLayer(Join(MapGetV(rules, layer), "\n"), layer, TRUE), "">> \o rest
          ELSE rest

\* Array.from(rules.values()).flat()
RECURSIVE FlatValues(_)
FlatValues(rules) ==
  IF rules = <<>> THEN <<>> ELSE Head(rules).v \o FlatValues(Tail(rules))

\* An organizeByLayers that walks the default order, whatever was configured.
organizeByLayers_defaultOrder(rules, config) ==
  LET c == SpreadConfig(config)
      layerDef == generateLayerDefinition(config)
  IN IF ~c.enabled THEN Join(FlatValues(rules), "\n")
     ELSE Trim(Join((IF layerDef # "" THEN <<layerDef, "">> ELSE <<>>)
                      \o LayerParts(rules, defaultLayerConfig.order), "\n"))

organizeByLayers(rules, config) ==
  LET c == SpreadConfig(config)
      layerDef == generateLayerDefinition(config)
  IN IF ~c.enabled THEN Join(FlatValues(rules), "\n")
     ELSE Trim(Join((IF layerDef # "" THEN <<layerDef, "">> ELSE <<>>)
                      \o LayerParts(rules, c.order), "\n"))

\* An add that pushes like an array.
SetAdd_push(set, x) == Append(set, x)

\* Set.prototype.add: a string already in the set keeps its place.
SetAdd(set, x) == IF x \in Range(set) THEN set ELSE Append(set, x)

\* LayerManager.add on the rules Map
AddRule(rules, css, layer) ==
  LET withLayer == IF MapHas(rules, layer) THEN rules ELSE MapSet(rules, layer, <<>>)
  IN MapSet(withLayer, layer, SetAdd(MapGetV(withLayer, layer), css))

RECURSIVE AddRules(_, _, _)
AddRules(rules, batch, layer) ==
  IF batch = <<>> THEN rules
  ELSE AddRules(AddRule(rules, Head(batch), layer), Tail(batch), layer)

\* layer: CascadeLayer = this.config.defaultLayer
LayerArg(layer) == IF layer = "undefined" THEN lmConfig.defaultLayer ELSE layer

\* constructor(config)
LayerManagerNew(config) ==
  /\ lmConfig' = SpreadConfig(config)
  /\ lmRules' = [i \in 1..Len(SpreadConfig(config).order) |->
                   [k |-> SpreadConfig(config).order[i], v |-> <<>>]]
  /\ lmAdded' = <<>>

add(css, layer) ==
  /\ Len(lmAdded) < MaxAdds
  /\ lmRules' = AddRule(lmRules, css, LayerArg(layer))
  /\ lmAdded' = Append(lmAdded, [layer |-> LayerArg(layer), css |-> css])
  /\ UNCHANGED lmConfig

addBatch(batch, layer) ==
  /\ Len(lmAdded) + Len(batch) <= MaxAdds
  /\ lmRules' = AddRules(lmRules, batch, LayerArg(layer))
  /\ lmAdded' = lmAdded \o [i \in 1..Len(batch) |-> [layer |-> LayerArg(layer), css |-> batch[i]]]
  /\ UNCHANGED lmConfig

getLayer(layer) == IF MapHas(lmRules, layer) THEN MapGetV(lmRules, layer) ELSE <<>>

generateCSS == organizeByLayers(lmRules, lmConfig)

clear ==
  /\ lmRules' = [i \in 1..Len(lmRules) |-> [k |-> lmRules[i].k, v |-> <<>>]]
  /\ lmAdded' = <<>>
  /\ UNCHANGED lmConfig

RECURSIVE SumLens(_)
SumLens(rules) == IF rules = <<>> THEN 0 ELSE Len(Head(rules).v) + SumLens(Tail(rules))

size == SumLens(lmRules)

InitLayers ==
  /\ lmConfig = defaultLayerConfig
  /\ lmRules = [i \in 1..Len(defaultLayerConfig.order) |->
                  [k |-> defaultLayerConfig.order[i], v |-> <<>>]]
  /\ lmAdded = <<>>

NextLayers ==
  \/ \E config \in LayerConfigs : LayerManagerNew(config) /\ UNCHANGED <<ssrVars, viteVars, mergeVars, variantVars, nestingVars, transformVars, nestedCSSVars, convertVars, lightningVars, generatorVars, colorVars, virtualVars, svelteVars, bundleVars, heapVars>>
  \/ \E css \in RuleTexts, layer \in CascadeLayer \cup {"undefined"} :
       add(css, layer) /\ UNCHANGED <<ssrVars, viteVars, mergeVars, variantVars, nestingVars, transformVars, nestedCSSVars, convertVars, lightningVars, generatorVars, colorVars, virtualVars, svelteVars, bundleVars, heapVars>>
  \/ \E batch \in SeqsUpTo(RuleTexts, MaxBatch) \ {<<>>}, layer \in CascadeLayer \cup {"undefined"} :
       addBatch(batch, layer) /\ UNCHANGED <<ssrVars, viteVars, mergeVars, variantVars, nestingVars, transformVars, nestedCSSVars, convertVars, lightningVars, generatorVars, colorVars, virtualVars, svelteVars, bundleVars, heapVars>>
  \/ clear /\ UNCHANGED <<ssrVars, viteVars, mergeVars, variantVars, nestingVars, transformVars, nestedCSSVars, convertVars, lightningVars, generatorVars, colorVars, virtualVars, svelteVars, bundleVars, heapVars>>

(***************************************************************************)
(* mergeStyles (src/packages/core/src/merge-styles.ts)                     *)
(***************************************************************************)
\* JavaScript values: undefined, null, false, a scalar (string or number,
\* held as its text) or a plain object (a sequence of [k, v] entries).
Undefined == [t |-> "undefined", s |-> "", o |-> <<>>]
Null == [t |-> "null", s |-> "", o |-> <<>>]
False == [t |-> "false", s |-> "", o |-> <<>>]
Scalar(x) == [t |-> "scalar", s |-> x, o |-> <<>>]
Obj(entries) == [t |-> "object", s |-> "", o |-> entries]

IsObject(val) == val.t = "object"
IsNullish(val) == val.t \in {"undefined", "null"}
\* !value
IsFalsy(val) == val.t \in {"undefined", "null", "false"} \/ (val.t = "scalar" /\ val.s = "")

\* obj[key]
Prop(obj, key) == IF MapHas(obj.o, key) THEN MapGetV(obj.o, key) ELSE Undefined

\* { ...a, ...b } for two objects
RECURSIVE AssignEntries(_, _)
AssignEntries(entries, more) ==
  IF more = <<>> THEN entries
  ELSE AssignEntries(MapSet(entries, Head(more).k, Head(more).v), Tail(more))

Spread(a, b) == Obj(AssignEntries(a.o, b.o))

\* key.startsWith('_') || key.startsWith('@')
IsNestedKey(key) == Len(key) > 0 /\ CharAt(key, 1) \in {"_", "@"}

\* An inner loop that assigns every entry, as Object.assign does.
MergeEntry_assign(merged, key, value) == Obj(MapSet(merged.o, key, value))

\* The body of the inner loop: one [key, value] entry merged into `merged`.
MergeEntry(merged, key, value) ==
  IF IsNullish(value) THEN merged
  ELSE IF IsObject(value) /\ IsNestedKey(key)
       THEN IF ~IsFalsy(Prop(merged, key))
            THEN Obj(MapSet(merged.o, key, Spread(Prop(merged, key), value)))
            ELSE Obj(MapSet(merged.o, key, Spread(Obj(<<>>), value)))
       ELSE Obj(MapSet(merged.o, key, value))

RECURSIVE MergeEntries(_, _)
MergeEntries(merged, entries) ==
  IF entries = <<>> THEN merged
  ELSE MergeEntries(MergeEntry(merged, Head(entries).k, Head(entries).v), Tail(entries))

RECURSIVE MergeFrom(_, _)
MergeFrom(merged, styles) ==
  IF styles = <<>> THEN merged
  ELSE IF IsFalsy(Head(styles)) THEN MergeFrom(merged, Tail(styles))
       ELSE MergeFrom(MergeEntries(merged, Head(styles).o), Tail(styles))

mergeStyles(styles) == MergeFrom(Obj(<<>>), styles)

\* The style objects handed to mergeStyles: an optional plain `bg`, and an
\* optional `_hover` or `@md` that is null or a fragment.
PlainEntries ==
  { <<>>,
    <<[k |-> "bg", v |-> Scalar("red")]>>,
    <<[k |-> "bg", v |-> Scalar("blue")]>>,
    <<[k |-> "bg", v |-> Undefined]>> }

Fragments ==
  { Obj(<<[k |-> "bg", v |-> Scalar("red")]>>),
    Obj(<<[k |-> "color", v |-> Scalar("blue")]>>),
    Obj(<<[k |-> "bg", v |-> Scalar("blue")], [k |-> "color", v |-> Undefined]>>),
    Obj(<<>>) }

NestedEntries ==
  {<<>>, <<[k |-> "_hover", v |-> Null]>>}
    \cup {<<[k |-> "_hover", v |-> f]>> : f \in Fragments}
    \cup {<<[k |-> "@md", v |-> f]>> :
            f \in {Obj(<<[k |-> "bg", v |-> Scalar("red")]>>),
                   Obj(<<[k |-> "color", v |-> Scalar("blue")]>>)}}

StyleArgs == {Obj(pl \o ne) : pl \in PlainEntries, ne \in NestedEntries} \cup {False}

\* A mergeStyles(...styles) call with one more argument than the last one.
MergeStylesCall(style) ==
  /\ Len(msArgs) < MaxStyles
  /\ msArgs' = Append(msArgs, style)
  /\ msResult' = mergeStyles(Append(msArgs, style))

\* mergeStyles() with no argument
MergeStylesEmpty ==
  /\ msArgs' = <<>>
  /\ msResult' = mergeStyles(<<>>)

InitMerge ==
  /\ msArgs = <<>>
  /\ msResult = Obj(<<>>)

NextMerge ==
  \/ \E style \in StyleArgs : MergeStylesCall(style) /\ UNCHANGED <<ssrVars, viteVars, layerVars, variantVars, nestingVars, transformVars, nestedCSSVars, convertVars, lightningVars, generatorVars, colorVars, virtualVars, svelteVars, bundleVars, heapVars>>
  \/ MergeStylesEmpty /\ UNCHANGED <<ssrVars, viteVars, layerVars, variantVars, nestingVars, transformVars, nestedCSSVars, convertVars, lightningVars, generatorVars, colorVars, virtualVars, svelteVars, bundleVars, heapVars>>

(***************************************************************************)
(* createCompoundVariant (src/packages/core/src/merge-styles.ts)           *)
(***************************************************************************)
\* config.variants: two dimensions; `lg` and the colours both set `bg`.
Variants ==
  Obj(<<[k |-> "color",
         v |-> Obj(<<[k |-> "primary", v |-> Obj(<<[k |-> "bg", v |-> Scalar("brand")]>>)],
                     [k |-> "secondary", v |-> Obj(<<[k |-> "bg", v |-> Scalar("gray")]>>)]>>)],
        [k |-> "size",
         v |-> Obj(<<[k |-> "sm", v |-> Obj(<<[k |-> "px", v |-> Scalar("4")]>>)],
                     [k |-> "lg", v |-> Obj(<<[k |-> "px", v |-> Scalar("8")],
                                              [k |-> "bg", v |-> Scalar("wide")]>>)]>>)]>>)

\* The compound variants a config is made of.
CompoundPool ==
  { [when |-> <<[k |-> "color", v |-> Scalar("primary")], [k |-> "size", v |-> Scalar("lg")]>>,
     style |-> Obj(<<[k |-> "shadow", v |-> Scalar("lg")], [k |-> "px", v |-> Scalar("9")]>>)],
    [when |-> <<[k |-> "size", v |-> Scalar("lg")]>>,
     style |-> Obj(<<[k |-> "shadow", v |-> Scalar("md")]>>)],
    [when |-> <<[k |-> "color", v |-> Scalar("secondary")]>>,
     style |-> Obj(<<[k |-> "bg", v |-> Scalar("black")],
                     [k |-> "_hover", v |-> Obj(<<[k |-> "bg", v |-> Scalar("red")]>>)]>>)] }

DefaultVariantSets ==
  { <<>>,
    <<[k |-> "color", v |-> Scalar("primary")]>>,
    <<[k |-> "size", v |-> Scalar("lg")]>>,
    <<[k |-> "color", v |-> Scalar("secondary")], [k |-> "size", v |-> Scalar("sm")]>> }

VariantConfigs ==
  [variants : {Variants},
   compoundVariants : SeqsUpTo(CompoundPool, MaxCompounds),
   defaultVariants : DefaultVariantSets]

\* The props objects the variant function is called with: each dimension is
\* left out, undefined, or a value (`xl` names no variant); both key orders.
ColorProps == {<<>>} \cup {<<[k |-> "color", v |-> val]>> :
                             val \in {Undefined, Scalar("primary"), Scalar("secondary")}}
SizeProps == {<<>>} \cup {<<[k |-> "size", v |-> val]>> :
                            val \in {Undefined, Scalar("sm"), Scalar("lg"), Scalar("xl")}}
VariantProps == {c \o z : c \in ColorProps, z \in SizeProps}
                  \cup {z \o c : c \in ColorProps, z \in SizeProps}

\* { ...config.defaultVariants, ...props }
FinalProps(config, props) == Obj(AssignEntries(AssignEntries(<<>>, config.defaultVariants), props))

\* config.variants[dimension]?.[value]
VariantStyle(config, dimension, value) ==
  LET variantGroup == Prop(config.variants, dimension)
  IN IF IsObject(variantGroup) THEN Prop(variantGroup, value.s) ELSE Undefined

\* The loop over Object.entries(finalProps): the variant styles pushed.
RECURSIVE VariantStyles(_, _)
VariantStyles(config, entries) ==
  IF entries = <<>> THEN <<>>
  ELSE LET dimension == Head(entries).k
           value == Head(entries).v
           rest == VariantStyles(config, Tail(entries))
       IN IF IsFalsy(value) THEN rest
          ELSE IF ~IsFalsy(VariantStyle(config, dimension, value))
               THEN <<VariantStyle(config, dimension, value)>> \o rest
               ELSE rest

\* A match that looks at the props passed in, not at the defaults.
CompoundMatches_propsOnly(compound, finalProps, props) ==
  \A i \in 1..Len(compound.when) :
    Prop(Obj(props), compound.when[i].k) = compound.when[i].v

\* Object.entries(compound.when).every(([key, expected]) => finalProps[key] === expected)
CompoundMatches(compound, finalProps, props) ==
  \A i \in 1..Len(compound.when) :
    Prop(finalProps, compound.when[i].k) = compound.when[i].v

\* The positions in config.compoundVariants of the compounds whose style is pushed.
MatchedCompounds(config, props) ==
  LET all == [i \in 1..Len(config.compoundVariants) |-> i]
  IN SelectSeq(all, LAMBDA i : CompoundMatches(config.compoundVariants[i],
                                               FinalProps(config, props), props))

\* A `styles` array built with the compound styles first.
VariantStylesArray_compoundsFirst(config, props) ==
  LET matched == MatchedCompounds(config, props)
  IN [i \in 1..Len(matched) |-> config.compoundVariants[matched[i]].style]
       \o VariantStyles(config, FinalProps(config, props).o)

\* The `styles` array handed to mergeStyles.
VariantStylesArray(config, props) ==
  LET matched == MatchedCompounds(config, props)
  IN VariantStyles(config, FinalProps(config, props).o)
       \o [i \in 1..Len(matched) |-> config.compoundVariants[matched[i]].style]

createCompoundVariant(config) ==
  /\ cvConfig' = config
  /\ cvCalled' = FALSE
  /\ cvProps' = <<>>
  /\ cvMatched' = <<>>
  /\ cvStyles' = <<>>
  /\ cvResult' = Obj(<<>>)

\* The function createCompoundVariant returned, applied to props.
CompoundVariantCall(props) ==
  /\ cvCalled' = TRUE
  /\ cvProps' = props
  /\ cvMatched' = MatchedCompounds(cvConfig, props)
  /\ cvStyles' = VariantStylesArray(cvConfig, props)
  /\ cvResult' = mergeStyles(VariantStylesArray(cvConfig, props))
  /\ UNCHANGED cvConfig

InitVariant ==
  /\ cvConfig = [variants |-> Variants, compoundVariants |-> <<>>, defaultVariants |-> <<>>]
  /\ cvCalled = FALSE
  /\ cvProps = <<>>
  /\ cvMatched = <<>>
  /\ cvStyles = <<>>
  /\ cvResult = Obj(<<>>)

NextVariant ==
  \/ \E config \in VariantConfigs :
       createCompoundVariant(config) /\ UNCHANGED <<ssrVars, viteVars, layerVars, mergeVars, nestingVars, transformVars, nestedCSSVars, convertVars, lightningVars, generatorVars, colorVars, virtualVars, svelteVars, bundleVars, heapVars>>
  \/ \E props \in VariantProps :
       CompoundVariantCall(props) /\ UNCHANGED <<ssrVars, viteVars, layerVars, mergeVars, nestingVars, transformVars, nestedCSSVars, convertVars, lightningVars, generatorVars, colorVars, virtualVars, svelteVars, bundleVars, heapVars>>

(***************************************************************************)
(* Nesting transformer: groupRulesBySelector (src/unnamed/part_002)        *)
(***************************************************************************)
\* [a-z-]
IsNameChar(c) ==
  c \in {"a", "b", "c", "d", "e", "f", "g", "h", "i", "j", "k", "l", "m", "n", "o",
         "p", "q", "r", "s", "t", "u", "v", "w", "x", "y", "z", "-"}

\* Length of the run of [a-z-] characters that starts at position i.
RECURSIVE NameRun(_, _)
NameRun(s, i) ==
  IF i > Len(s) THEN 0
  ELSE IF IsNameChar(CharAt(s, i)) THEN 1 + NameRun(s, i + 1) ELSE 0

\* Length of the match of /(:[a-z-]+|::[a-z-]+|\[[^\]]+\])/ at position i, 0 if none.
PseudoMatchAt(s, i) ==
  IF CharAt(s, i) = ":"
  THEN IF NameRun(s, i + 1) > 0 THEN 1 + NameRun(s, i + 1)
       ELSE IF i < Len(s) /\ CharAt(s, i + 1) = ":" /\ NameRun(s, i + 2) > 0
            THEN 2 + NameRun(s, i + 2)
            ELSE 0
  ELSE IF CharAt(s, i) = "["
       THEN IF IndexFrom(s, "]", i + 1) >= i + 2 THEN IndexFrom(s, "]", i + 1) - i + 1 ELSE 0
       ELSE 0

\* selector.replace(/.../g, ''): the text left, scanning from position i.
RECURSIVE StripPseudo(_, _)
StripPseudo(s, i) ==
  IF i > Len(s) THEN ""
  ELSE IF PseudoMatchAt(s, i) > 0 THEN StripPseudo(s, i + PseudoMatchAt(s, i))
       ELSE CharAt(s, i) \o StripPseudo(s, i + 1)

extractBaseSelector(selector) == Trim(StripPseudo(selector, 1))

\* The loop over declarationsStr.split(';').
RECURSIVE ParseDeclarations(_, _)
ParseDeclarations(declarations, decls) ==
  IF decls = <<>> THEN declarations
  ELSE LET parts == Split(Head(decls), ":")
           prop == Trim(parts[1])
           hasValue == Len(parts) >= 2
       IN IF prop # "" /\ hasValue /\ Trim(parts[2]) # ""
          THEN ParseDeclarations(MapSet(declarations, prop, Trim(parts[2])), Tail(decls))
          ELSE ParseDeclarations(declarations, Tail(decls))

\* rule.match(/^([^{]+)\{([^}]+)\}/): null unless a non-empty selector is
\* followed by `{`, a non-empty body and `}`.
RuleMatches(rule) ==
  /\ IndexOf(rule, "{") >= 2
  /\ IndexFrom(rule, "}", IndexOf(rule, "{") + 1) >= IndexOf(rule, "{") + 2

parseRule(rule) ==
  LET open == IndexOf(rule, "{")
      close == IndexFrom(rule, "}", open + 1)
  IN [selector |-> Trim(SubSeq(rule, 1, open - 1)),
      declarations |-> ParseDeclarations(<<>>, Split(Trim(SubSeq(rule, open + 1, close - 1)), ";"))]

\* The body of the loop of groupRulesBySelector for one parsed rule.
GroupRule(grouped, parsed) ==
  LET selector == parsed.selector
      baseSelector == extractBaseSelector(selector)
      withGroup == IF MapHas(grouped, baseSelector) THEN grouped
                   ELSE MapSet(grouped, baseSelector, [base |-> <<>>, nested |-> <<>>])
      group == MapGetV(withGroup, baseSelector)
  IN IF selector = baseSelector
     THEN MapSet(withGroup, baseSelector,
                 [group EXCEPT !.base = AssignEntries(group.base, parsed.declarations)])
     ELSE MapSet(withGroup, baseSelector,
                 [group EXCEPT !.nested = MapSet(group.nested,
                                                 ReplaceFirst(selector, baseSelector, "&"),
                                                 parsed.declarations)])

\* A grouping in which one unparsable rule is fatal to the batch.
GroupStep_fatal(grouped, rule) ==
  IF ~RuleMatches(rule) THEN <<>> ELSE GroupRule(grouped, parseRule(rule))

\* One iteration of the loop: `if (!parsed) continue`, else group the rule.
GroupStep(grouped, rule) ==
  IF ~RuleMatches(rule) THEN grouped ELSE GroupRule(grouped, parseRule(rule))

RECURSIVE GroupFrom(_, _)
GroupFrom(grouped, rules) ==
  IF rules = <<>> THEN grouped
  ELSE GroupFrom(GroupStep(grouped, Head(rules)), Tail(rules))

groupRulesBySelector(rules) == GroupFrom(<<>>, rules)

\* The flat rules handed to groupRulesBySelector.
FlatRules ==
  { ".btn { color: blue; }",
    ".btn { color: red; padding: 1px; }",
    ".btn:hover { color: red; }",
    ".btn:hover { padding: 1px; }",
    ".btn::before { color: blue; }",
    ".btn[disabled] { color: red; }",
    ".btn:nth-child(2) { color: red; }",
    ".btn:hover .icon { color: red; }",
    ".card { color: blue; }",
    ".card:hover { padding: 1px; }",
    "oops" }

\* A groupRulesBySelector(rules) call with one more rule than the last one.
GroupRulesCall(rule) ==
  /\ Len(grRules) < MaxRules
  /\ grRules' = Append(grRules, rule)
  /\ grGrouped' = groupRulesBySelector(Append(grRules, rule))

\* groupRulesBySelector([])
GroupRulesEmpty ==
  /\ grRules' = <<>>
  /\ grGrouped' = groupRulesBySelector(<<>>)

InitNesting ==
  /\ grRules = <<>>
  /\ grGrouped = <<>>

NextNesting ==
  \/ \E rule \in FlatRules :
       GroupRulesCall(rule) /\ UNCHANGED <<ssrVars, viteVars, layerVars, mergeVars, variantVars, transformVars, nestedCSSVars, convertVars, lightningVars, generatorVars, colorVars, virtualVars, svelteVars, bundleVars, heapVars>>
  \/ GroupRulesEmpty /\ UNCHANGED <<ssrVars, viteVars, layerVars, mergeVars, variantVars, transformVars, nestedCSSVars, convertVars, lightningVars, generatorVars, colorVars, virtualVars, svelteVars, bundleVars, heapVars>>

(***************************************************************************)
(* AssemblyScript class-name transform (src/unnamed/part_008)              *)
(*                                                                         *)
(* f64 values are decimals mant / 10^scale with a sign; NaN is flagged.    *)
(* `===` on strings compares contents and f64.toString() always prints a   *)
(* fractional part ("4.0"), as current AssemblyScript compilers do.        *)
(***************************************************************************)
PROPERTY_MAP ==
  << [k |-> "m", v |-> "margin"], [k |-> "mt", v |-> "margin-top"],
     [k |-> "mr", v |-> "margin-right"], [k |-> "mb", v |-> "margin-bottom"],
     [k |-> "ml", v |-> "margin-left"], [k |-> "mx", v |-> "margin-inline"],
     [k |-> "my", v |-> "margin-block"], [k |-> "p", v |-> "padding"],
     [k |-> "pt", v |-> "padding-top"], [k |-> "pr", v |-> "padding-right"],
     [k |-> "pb", v |-> "padding-bottom"], [k |-> "pl", v |-> "padding-left"],
     [k |-> "px", v |-> "padding-inline"], [k |-> "py", v |-> "padding-block"],
     [k |-> "w", v |-> "width"], [k |-> "h", v |-> "height"],
     [k |-> "minW", v |-> "min-width"], [k |-> "minH", v |-> "min-height"],
     [k |-> "maxW", v |-> "max-width"], [k |-> "maxH", v |-> "max-height"],
     [k |-> "bg", v |-> "background-color"], [k |-> "bgColor", v |-> "background-color"],
     [k |-> "rounded", v |-> "border-radius"] >>

\* The printable ASCII characters of codes 32..95 and 97..126.
AsciiTo95 == " !\"#$%&'()*+,-./0123456789:;<=>?@ABCDEFGHIJKLMNOPQRSTUVWXYZ[\\]^_"
AsciiFrom97 == "abcdefghijklmnopqrstuvwxyz{|}~"

\* The code of each of those characters.
CharCodes ==
  [c \in {CharAt(AsciiTo95, i) : i \in 1..Len(AsciiTo95)}
           \cup {CharAt(AsciiFrom97, i) : i \in 1..Len(AsciiFrom97)} |->
     IF IndexOf(AsciiTo95, c) > 0 THEN 31 + IndexOf(AsciiTo95, c) ELSE 96 + IndexOf(AsciiFrom97, c)]

\* String.prototype.charCodeAt for a one-character string
CharCode(c) == CharCodes[c]

\* String.prototype.toLowerCase for a one-character string
ToLowerCase(c) ==
  IF CharCode(c) >= 65 /\ CharCode(c) <= 90 THEN CharAt(AsciiFrom97, CharCode(c) - 64) ELSE c

RECURSIVE camelToKebabFrom(_, _)
camelToKebabFrom(str, i) ==
  IF i > Len(str) THEN ""
  ELSE IF CharCode(CharAt(str, i)) >= 65 /\ CharCode(CharAt(str, i)) <= 90
       THEN "-" \o ToLowerCase(CharAt(str, i)) \o camelToKebabFrom(str, i + 1)
       ELSE CharAt(str, i) \o camelToKebabFrom(str, i + 1)

camelToKebab(str) == camelToKebabFrom(str, 1)

resolveCSSProperty(property) ==
  IF MapHas(PROPERTY_MAP, property) THEN MapGetV(PROPERTY_MAP, property)
  ELSE camelToKebab(property)

IsDigit(c) == CharCode(c) >= 48 /\ CharCode(c) <= 57

\* Length of the run of decimal digits that starts at position i.
RECURSIVE DigitRun(_, _)
DigitRun(s, i) ==
  IF i > Len(s) THEN 0
  ELSE IF IsDigit(CharAt(s, i)) THEN 1 + DigitRun(s, i + 1) ELSE 0

\* The natural number written by the digits s[i..j].
RECURSIVE DigitsValue(_, _, _)
DigitsValue(s, i, j) ==
  IF j < i THEN 0
  ELSE 10 * DigitsValue(s, i, j - 1) + (CharCode(CharAt(s, j)) - 48)

RECURSIVE Pow10(_)
Pow10(n) == IF n = 0 THEN 1 ELSE 10 * Pow10(n - 1)

NaN == [nan |-> TRUE, neg |-> FALSE, mant |-> 0, scale |-> 0]

\* parseFloat: leading blanks, a sign, digits, a fraction; the longest prefix
\* that is a number (exponents are outside the inputs used here).
parseFloat(value) ==
  LET start == TrimStartAt(value, 1)
      signed == start <= Len(value) /\ CharAt(value, start) \in {"-", "+"}
      first == IF signed THEN start + 1 ELSE start
      intLen == DigitRun(value, first)
      hasDot == first + intLen <= Len(value) /\ CharAt(value, first + intLen) = "."
      fracLen == IF hasDot THEN DigitRun(value, first + intLen + 1) ELSE 0
  IN IF intLen + fracLen = 0 THEN NaN
     ELSE [nan |-> FALSE,
           neg |-> signed /\ CharAt(value, start) = "-",
           mant |-> DigitsValue(value, first, first + intLen - 1) * Pow10(fracLen)
                      + DigitsValue(value, first + intLen + 1, first + intLen + fracLen),
           scale |-> fracLen]

isNaN(num) == num.nan

RECURSIVE NatToString(_)
NatToString(n) ==
  IF n < 10 THEN CharAt("0123456789", n + 1)
  ELSE NatToString(n \div 10) \o CharAt("0123456789", (n % 10) + 1)

\* n written with exactly `width` digits (leading zeros).
RECURSIVE PadDigits(_, _)
PadDigits(n, width) ==
  IF width = 0 THEN "" ELSE PadDigits(n \div 10, width - 1) \o NatToString(n % 10)

\* The decimal without trailing zeros in its fraction.
RECURSIVE Shortest(_)
Shortest(num) ==
  IF num.scale > 0 /\ num.mant % 10 = 0
  THEN Shortest([num EXCEPT !.mant = num.mant \div 10, !.scale = num.scale - 1])
  ELSE num

\* f64.toString(): shortest decimal, always with a fractional part
F64ToString(num) ==
  LET n == Shortest(num)
  IN IF num.nan THEN "NaN"
     ELSE (IF n.neg THEN "-" ELSE "")
            \o NatToString(n.mant \div Pow10(n.scale)) \o "."
            \o (IF n.scale = 0 THEN "0" ELSE PadDigits(n.mant % Pow10(n.scale), n.scale))

\* num * 0.25
TimesQuarter(num) == [num EXCEPT !.mant = num.mant * 25, !.scale = num.scale + 2]

StartsWith(s, pre) == Len(s) >= Len(pre) /\ SubSeq(s, 1, Len(pre)) = pre

normalizeCSSValue(property, value) ==
  LET num == parseFloat(value)
  IN IF ~isNaN(num) /\ value = F64ToString(num)
     THEN IF StartsWith(property, "p") \/ StartsWith(property, "m") \/ property = "gap"
          THEN F64ToString(TimesQuarter(num)) \o "rem"
          ELSE IF property \in {"opacity", "zIndex", "fontWeight", "lineHeight", "flex"}
               THEN value
               ELSE value \o "px"
     ELSE value

\* A u32 is kept as two 16-bit halves [hi, lo]: its value is hi * 2^16 + lo.
TwoTo16 == 65536

\* ((hash << 5) - hash) + char on u32, that is 31 * hash + char modulo 2^32
HashStep(hash, char) ==
  [hi |-> (31 * hash.hi + ((31 * hash.lo + char) \div TwoTo16)) % TwoTo16,
   lo |-> (31 * hash.lo + char) % TwoTo16]

\* The loop of hashString from position i on.
RECURSIVE HashFrom(_, _, _)
HashFrom(str, i, hash) ==
  IF i > Len(str) THEN hash
  ELSE HashFrom(str, i + 1, HashStep(hash, CharCode(CharAt(str, i))))

RECURSIVE ToHex(_)
ToHex(n) ==
  IF n < 16 THEN CharAt("0123456789abcdef", n + 1)
  ELSE ToHex(n \div 16) \o CharAt("0123456789abcdef", (n % 16) + 1)

\* n < 2^16 written with exactly four hexadecimal digits.
ToHex4(n) == SubSeq("000", 1, 4 - Len(ToHex(n))) \o ToHex(n)

\* u32.toString(16)
U32ToHex(hash) == IF hash.hi = 0 THEN ToHex(hash.lo) ELSE ToHex(hash.hi) \o ToHex4(hash.lo)

hashString(str) ==
  LET hex == U32ToHex(HashFrom(str, 1, [hi |-> 0, lo |-> 0]))
  IN SubSeq(hex, 1, IF Len(hex) < 4 THEN Len(hex) ELSE 4)

\* The five String.replace calls on safeValue (first occurrence each).
SafeValue(value) ==
  ReplaceFirst(ReplaceFirst(ReplaceFirst(ReplaceFirst(ReplaceFirst(
    value, " ", "_"), "(", ""), ")", ""), "#", ""), ".", "_")

\* A generator that numbers its class names by the calls made so far.
generateClassName_counted(property, value, prefix) ==
  prefix \o "_" \o property \o "_" \o SafeValue(value) \o "_" \o NatToString(Len(tsCalls))

generateClassName(property, value, prefix) ==
  prefix \o "_" \o property \o "_" \o SafeValue(value) \o "_"
    \o hashString(resolveCSSProperty(property) \o normalizeCSSValue(property, value))

generateCSSRule(className, property, value) ==
  "." \o className \o " { " \o resolveCSSProperty(property) \o ": "
    \o normalizeCSSValue(property, value) \o "; }"

\* pair.indexOf(':'), 0-based, -1 when absent
ColonIndex(pair) == IndexOf(pair, ":") - 1

\* The loop of transformStyles from pair i (1-based) on.
RECURSIVE TransformPairs(_, _, _, _)
TransformPairs(pairs, i, prefix, classNames) ==
  IF i > Len(pairs) THEN classNames
  ELSE IF ColonIndex(pairs[i]) > 0
       THEN TransformPairs(pairs, i + 1, prefix,
              classNames \o (IF i > 1 THEN " " ELSE "")
                \o generateClassName(SubSeq(pairs[i], 1, ColonIndex(pairs[i])),
                                     SubSeq(pairs[i], ColonIndex(pairs[i]) + 2, Len(pairs[i])),
                                     prefix))
       ELSE TransformPairs(pairs, i + 1, prefix, classNames)

transformStyles(styles, prefix) == TransformPairs(Split(styles, ","), 1, prefix, "")

\* The loop of generateAllCSS from pair i (1-based) on.
RECURSIVE CSSOfPairs(_, _, _, _)
CSSOfPairs(pairs, i, prefix, css) ==
  IF i > Len(pairs) THEN css
  ELSE IF ColonIndex(pairs[i]) > 0
       THEN LET property == SubSeq(pairs[i], 1, ColonIndex(pairs[i]))
                value == SubSeq(pairs[i], ColonIndex(pairs[i]) + 2, Len(pairs[i]))
            IN CSSOfPairs(pairs, i + 1, prefix,
                 css \o generateCSSRule(generateClassName(property, value, prefix), property, value))
       ELSE CSSOfPairs(pairs, i + 1, prefix, css)

generateAllCSS(styles, prefix) == CSSOfPairs(Split(styles, ","), 1, prefix, "")

\* The `styles` strings the host passes ("property:value" pairs joined by ',').
StyleInputs ==
  { "bg:red",
    "color:red,bg:red",
    "bg:red,color:red",
    "p:4.0,bg:red",
    "m:0.5,p:4.0",
    "oops,bg:red",
    "w:100.0,fontWeight:700.0",
    "bg:#fff,border:1px solid",
    "maxW:100.0,m:0.5" }

Prefixes == {"silk", "s"}

\* One exported call: transformStyles(styles, prefix)
TransformStylesCall(styles, prefix) ==
  /\ Len(tsCalls) < MaxCalls
  /\ tsCalls' = Append(tsCalls, [fn |-> "transformStyles", styles |-> styles,
                                 prefix |-> prefix, result |-> transformStyles(styles, prefix)])

\* One exported call: generateAllCSS(styles, prefix)
GenerateAllCSSCall(styles, prefix) ==
  /\ Len(tsCalls) < MaxCalls
  /\ tsCalls' = Append(tsCalls, [fn |-> "generateAllCSS", styles |-> styles,
                                 prefix |-> prefix, result |-> generateAllCSS(styles, prefix)])

InitTransform == tsCalls = <<>>

NextTransform ==
  \/ \E styles \in StyleInputs, prefix \in Prefixes :
       TransformStylesCall(styles, prefix)
         /\ UNCHANGED <<ssrVars, viteVars, layerVars, mergeVars, variantVars, nestingVars, nestedCSSVars, convertVars, lightningVars, generatorVars, colorVars, virtualVars, svelteVars, bundleVars, heapVars>>
  \/ \E styles \in StyleInputs, prefix \in Prefixes :
       GenerateAllCSSCall(styles, prefix)
         /\ UNCHANGED <<ssrVars, viteVars, layerVars, mergeVars, variantVars, nestingVars, nestedCSSVars, convertVars, lightningVars, generatorVars, colorVars, virtualVars, svelteVars, bundleVars, heapVars>>

(***************************************************************************)
(* Nesting transformer: generateNestedCSS / generateExpandedCSS            *)
(* (src/unnamed/part_002)                                                  *)
(***************************************************************************)
defaultNestingConfig == [enabled |-> TRUE, legacyFallback |-> FALSE]

\* The configs passed: {}, { enabled: false }, { enabled: true, legacyFallback: true }
NestingConfigs ==
  { [enabled |-> TRUE, legacyFallback |-> FALSE],
    [enabled |-> FALSE, legacyFallback |-> FALSE],
    [enabled |-> TRUE, legacyFallback |-> TRUE] }

\* Object.entries(props).map(([prop, value]) => `${prop}: ${value}`).join('; ')
DeclarationsText(props) ==
  Join([i \in 1..Len(props) |-> props[i].k \o ": " \o props[i].v], "; ")

\* The rule lines generateExpandedCSS pushes for the nested entries.
ExpandedNestedParts(baseSelector, nestedRules) ==
  [i \in 1..Len(nestedRules) |->
     (IF StartsWith(nestedRules[i].k, "&")
      THEN baseSelector \o SubSeq(nestedRules[i].k, 2, Len(nestedRules[i].k))
      ELSE baseSelector \o " " \o nestedRules[i].k)
       \o " { " \o DeclarationsText(nestedRules[i].v) \o "; }"]

generateExpandedCSS(baseSelector, baseProps, nestedRules) ==
  Join((IF DeclarationsText(baseProps) # ""
        THEN <<baseSelector \o " { " \o DeclarationsText(baseProps) \o "; }">>
        ELSE <<>>)
         \o ExpandedNestedParts(baseSelector, nestedRules), "\n")

\* The lines generateNestedCSS pushes for the nested entries.
NestedParts(nestedRules) ==
  [i \in 1..Len(nestedRules) |->
     "  " \o (IF StartsWith(nestedRules[i].k, "&") THEN nestedRules[i].k
              ELSE "& " \o nestedRules[i].k)
       \o " { " \o DeclarationsText(nestedRules[i].v) \o "; }"]

generateNestedCSS(baseSelector, baseProps, nestedRules, config) ==
  IF ~config.enabled \/ config.legacyFallback
  THEN generateExpandedCSS(baseSelector, baseProps, nestedRules)
  ELSE IF Len(nestedRules) > 0
       THEN Join(<<baseSelector \o " {">>
                   \o (IF DeclarationsText(baseProps) # ""
                       THEN <<"  " \o DeclarationsText(baseProps) \o ";">> ELSE <<>>)
                   \o NestedParts(nestedRules) \o <<"}">>, "\n")
       ELSE baseSelector \o " { " \o DeclarationsText(baseProps) \o "; }"

\* The groups handed to generateNestedCSS.
BaseSelectors == {".btn", ".parent"}

BasePropsPool ==
  { <<>>,
    <<[k |-> "color", v |-> "blue"]>>,
    <<[k |-> "color", v |-> "red"], [k |-> "padding", v |-> "10px"]>> }

NestedSelectors == {"&:hover", "&::before", "&[disabled]", "&:nth-child(2)", "&.active", ".child"}

NestedPropsPool ==
  { <<[k |-> "color", v |-> "red"]>>,
    <<[k |-> "outline", v |-> "2px solid blue"], [k |-> "display", v |-> "block"]>> }


\* generateNestedCSS(baseSelector, baseProps, {}, config)
GenerateNestedCall(baseSelector, baseProps, config) ==
  /\ gnArgs' = [called |-> TRUE, baseSelector |-> baseSelector, baseProps |-> baseProps,
                nestedRules |-> <<>>, config |-> config]
  /\ gnResult' = generateNestedCSS(baseSelector, baseProps, <<>>, config)

\* generateNestedCSS for the last group with one more nested entry.
GenerateNestedMore(nestedSelector, props) ==
  /\ gnArgs.called
  /\ Len(gnArgs.nestedRules) < MaxNested
  /\ ~MapHas(gnArgs.nestedRules, nestedSelector)
  /\ gnArgs' = [gnArgs EXCEPT !.nestedRules = MapSet(gnArgs.nestedRules, nestedSelector, props)]
  /\ gnResult' = generateNestedCSS(gnArgs.baseSelector, gnArgs.baseProps,
                                   MapSet(gnArgs.nestedRules, nestedSelector, props),
                                   gnArgs.config)

InitNestedCSS ==
  /\ gnArgs = NoCall
  /\ gnResult = ""

NextNestedCSS ==
  \/ \E baseSelector \in BaseSelectors, baseProps \in BasePropsPool, config \in NestingConfigs :
       GenerateNestedCall(baseSelector, baseProps, config)
         /\ UNCHANGED <<ssrVars, viteVars, layerVars, mergeVars, variantVars, nestingVars,
                        transformVars, convertVars, lightningVars, generatorVars, colorVars, virtualVars, svelteVars, bundleVars, heapVars>>
  \/ \E nestedSelector \in NestedSelectors, props \in NestedPropsPool :
       GenerateNestedMore(nestedSelector, props)
         /\ UNCHANGED <<ssrVars, viteVars, layerVars, mergeVars, variantVars, nestingVars,
                        transformVars, convertVars, lightningVars, generatorVars, colorVars, virtualVars, svelteVars, bundleVars, heapVars>>

(***************************************************************************)
(* Nesting transformer: convertToNestedCSS (src/unnamed/part_002)          *)
(***************************************************************************)
\* css.split('\n').filter((r) => r.trim())
RulesOfCSS(css) == SelectSeq(Split(css, "\n"), LAMBDA r : Trim(r) # "")

\* The loop over `grouped`: one generateNestedCSS text per group.
GroupTexts(grouped, config) ==
  [i \in 1..Len(grouped) |->
     generateNestedCSS(grouped[i].k, grouped[i].v.base, grouped[i].v.nested, config)]

convertToNestedCSS(css, config) ==
  Join(GroupTexts(groupRulesBySelector(RulesOfCSS(css)), config), "\n\n")

\* The lines of the css texts handed to convertToNestedCSS.
CSSLines ==
  { ".btn { color: blue; }",
    ".btn:hover { color: red; }",
    ".card { color: blue; }",
    "oops",
    ".x {}",
    ".x { oops }",
    ".btn:nth-child(2) { color: red; }",
    "{ a: b; }",
    "" }

\* convertToNestedCSS(css, config), css being the last text with one more line.
ConvertCall(line, config) ==
  /\ Len(cvtLines) < MaxLines
  /\ cvtLines' = Append(cvtLines, line)
  /\ cvtConfig' = config
  /\ cvtGrouped' = groupRulesBySelector(RulesOfCSS(Join(Append(cvtLines, line), "\n")))
  /\ cvtResult' = convertToNestedCSS(Join(Append(cvtLines, line), "\n"), config)

\* convertToNestedCSS('', config)
ConvertEmpty(config) ==
  /\ cvtLines' = <<>>
  /\ cvtConfig' = config
  /\ cvtGrouped' = groupRulesBySelector(RulesOfCSS(""))
  /\ cvtResult' = convertToNestedCSS("", config)

InitConvert ==
  /\ cvtLines = <<>>
  /\ cvtConfig = defaultNestingConfig
  /\ cvtGrouped = <<>>
  /\ cvtResult = ""

NextConvert ==
  \/ \E line \in CSSLines, config \in NestingConfigs :
       ConvertCall(line, config)
         /\ UNCHANGED <<ssrVars, viteVars, layerVars, mergeVars, variantVars, nestingVars,
                        transformVars, nestedCSSVars, lightningVars, generatorVars, colorVars, virtualVars, svelteVars, bundleVars, heapVars>>
  \/ \E config \in NestingConfigs :
       ConvertEmpty(config)
         /\ UNCHANGED <<ssrVars, viteVars, layerVars, mergeVars, variantVars, nestingVars,
                        transformVars, nestedCSSVars, lightningVars, generatorVars, colorVars, virtualVars, svelteVars, bundleVars, heapVars>>

(***************************************************************************)
(* optimizeCSSWithLightning / loadLightningCSS                              *)
(* (src/packages/core/src/production-node.ts)                              *)
(*                                                                         *)
(* Each call is an async function: it runs to its next `await` in one      *)
(* step, and the awaited import / initialisation settles in a later step.  *)
(***************************************************************************)
OptCalls == 1..MaxOptCalls

CSSTexts == {".a { color: red; }", ".b { }"}

\* The internal optimizer's result for css (production.js, used as a whole).
optimizeCSS(css) == [state |-> "resolved", by |-> "optimizeCSS", css |-> css]

\* The result built from lightning.transform's output.
LightningResult(css) == [state |-> "resolved", by |-> "lightningcss", css |-> css]

Pending == [state |-> "pending", by |-> "", css |-> ""]

\* optimizeCSSWithLightning(css) up to the first await inside loadLightningCSS.
OptimizeStart(c, css) ==
  /\ optPc[c] = "idle"
  /\ optCss' = [optCss EXCEPT ![c] = css]
  /\ IF lightningcss # "null"
     THEN /\ optLightning' = [optLightning EXCEPT ![c] = lightningcss]
          /\ optPc' = [optPc EXCEPT ![c] = "loaded"]
     ELSE /\ optPc' = [optPc EXCEPT ![c] = "importing"]
          /\ UNCHANGED optLightning
  /\ UNCHANGED <<lightningcss, wasmInitialized, optResult, optFailed, initInvocations,
                 transformBeforeInit>>

\* `await import('lightningcss-wasm')` settles: the module, or a rejection.
ImportSettled(c, ok) ==
  /\ optPc[c] = "importing"
  /\ IF ok
     THEN /\ lightningcss' = "module"
          /\ IF ~wasmInitialized
             THEN /\ initInvocations' = initInvocations + 1
                  /\ optPc' = [optPc EXCEPT ![c] = "initializing"]
                  /\ UNCHANGED optLightning
             ELSE /\ optLightning' = [optLightning EXCEPT ![c] = "module"]
                  /\ optPc' = [optPc EXCEPT ![c] = "loaded"]
                  /\ UNCHANGED initInvocations
          /\ UNCHANGED optFailed
     ELSE /\ optLightning' = [optLightning EXCEPT ![c] = "null"]
          /\ optFailed' = [optFailed EXCEPT ![c] = TRUE]
          /\ optPc' = [optPc EXCEPT ![c] = "loaded"]
          /\ UNCHANGED <<lightningcss, initInvocations>>
  /\ UNCHANGED <<wasmInitialized, optCss, optResult, transformBeforeInit>>

\* `await lightningcss.default()` settles: done, or it threw.
InitSettled(c, ok) ==
  /\ optPc[c] = "initializing"
  /\ IF ok
     THEN /\ wasmInitialized' = TRUE
          /\ optLightning' = [optLightning EXCEPT ![c] = lightningcss]
          /\ UNCHANGED optFailed
     ELSE /\ optLightning' = [optLightning EXCEPT ![c] = "null"]
          /\ optFailed' = [optFailed EXCEPT ![c] = TRUE]
          /\ UNCHANGED wasmInitialized
  /\ optPc' = [optPc EXCEPT ![c] = "loaded"]
  /\ UNCHANGED <<lightningcss, optCss, optResult, initInvocations, transformBeforeInit>>

\* The same continuation without the catch block around transform.
OptimizeResume_uncaught(c, transformOk) ==
  /\ optPc[c] = "loaded"
  /\ optPc' = [optPc EXCEPT ![c] = "done"]
  /\ IF optLightning[c] = "null"
     THEN /\ optResult' = [optResult EXCEPT ![c] = optimizeCSS(optCss[c])]
          /\ UNCHANGED <<optFailed, transformBeforeInit>>
     ELSE /\ transformBeforeInit' = (transformBeforeInit \/ ~wasmInitialized)
          /\ IF transformOk
             THEN /\ optResult' = [optResult EXCEPT ![c] = LightningResult(optCss[c])]
                  /\ UNCHANGED optFailed
             ELSE /\ optResult' = [optResult EXCEPT ![c] =
                                     [state |-> "rejected", by |-> "", css |-> optCss[c]]]
                  /\ optFailed' = [optFailed EXCEPT ![c] = TRUE]
  /\ UNCHANGED <<lightningcss, wasmInitialized, optCss, optLightning, initInvocations>>

\* optimizeCSSWithLightning after `await loadLightningCSS()`: the fallback
\* when there is no module, else transform() and its result, or the fallback
\* from the catch block when transform throws.
OptimizeResume(c, transformOk) ==
  /\ optPc[c] = "loaded"
  /\ optPc' = [optPc EXCEPT ![c] = "done"]
  /\ IF optLightning[c] = "null"
     THEN /\ optResult' = [optResult EXCEPT ![c] = optimizeCSS(optCss[c])]
          /\ UNCHANGED <<optFailed, transformBeforeInit>>
     ELSE /\ transformBeforeInit' = (transformBeforeInit \/ ~wasmInitialized)
          /\ IF transformOk
             THEN /\ optResult' = [optResult EXCEPT ![c] = LightningResult(optCss[c])]
                  /\ UNCHANGED optFailed
             ELSE /\ optResult' = [optResult EXCEPT ![c] = optimizeCSS(optCss[c])]
                  /\ optFailed' = [optFailed EXCEPT ![c] = TRUE]
  /\ UNCHANGED <<lightningcss, wasmInitialized, optCss, optLightning, initInvocations>>

InitLightning ==
  /\ lightningcss = "null"
  /\ wasmInitialized = FALSE
  /\ optPc = [c \in OptCalls |-> "idle"]
  /\ optCss = [c \in OptCalls |-> ""]
  /\ optLightning = [c \in OptCalls |-> "null"]
  /\ optResult = [c \in OptCalls |-> Pending]
  /\ optFailed = [c \in OptCalls |-> FALSE]
  /\ initInvocations = 0
  /\ transformBeforeInit = FALSE

NextLightning ==
  \/ \E c \in OptCalls, css \in CSSTexts :
       OptimizeStart(c, css)
         /\ UNCHANGED <<ssrVars, viteVars, layerVars, mergeVars, variantVars, nestingVars,
                        transformVars, nestedCSSVars, convertVars, generatorVars, colorVars, virtualVars, svelteVars, bundleVars, heapVars>>
  \/ \E c \in OptCalls, ok \in BOOLEAN :
       ImportSettled(c, ok)
         /\ UNCHANGED <<ssrVars, viteVars, layerVars, mergeVars, variantVars, nestingVars,
                        transformVars, nestedCSSVars, convertVars, generatorVars, colorVars, virtualVars, svelteVars, bundleVars, heapVars>>
  \/ \E c \in OptCalls, ok \in BOOLEAN :
       InitSettled(c, ok)
         /\ UNCHANGED <<ssrVars, viteVars, layerVars, mergeVars, variantVars, nestingVars,
                        transformVars, nestedCSSVars, convertVars, generatorVars, colorVars, virtualVars, svelteVars, bundleVars, heapVars>>
  \/ \E c \in OptCalls, transformOk \in BOOLEAN :
       OptimizeResume(c, transformOk)
         /\ UNCHANGED <<ssrVars, viteVars, layerVars, mergeVars, variantVars, nestingVars,
                        transformVars, nestedCSSVars, convertVars, generatorVars, colorVars, virtualVars, svelteVars, bundleVars, heapVars>>

(***************************************************************************)
(* The documented class-name hash (src/packages/swc-plugin/README.md):     *)
(* MurmurHash2-style fold on u32, base 36, leading digit mapped to a       *)
(* letter.  A u32 is kept as [hi, lo] as above.                            *)
(***************************************************************************)
\* Bitwise XOR of two naturals.
RECURSIVE Xor(_, _)
Xor(a, b) ==
  IF a = 0 THEN b
  ELSE IF b = 0 THEN a
  ELSE 2 * Xor(a \div 2, b \div 2) + ((a + b) % 2)

\* x * y modulo 2^16 and x * y divided by 2^16, for x, y < 2^16.
MulLow16(x, y) == (((((x \div 256) * y) % 256) * 256) + (x % 256) * y) % 65536
MulHigh16(x, y) ==
  (((x \div 256) * y) \div 256) + (((((x \div 256) * y) % 256) * 256) + (x % 256) * y) \div 65536

\* One step of the reference fold on a u32 kept as [hi, lo]:
\* h = (h ^ c) * 0x5bd1e995 (wrapping); h ^= h >> 13
MurmurStep(h, c) ==
  LET x == [hi |-> h.hi, lo |-> Xor(h.lo, c)]
      m == [hi |-> (MulLow16(x.hi, 59797) + MulLow16(x.lo, 23505)
                      + MulHigh16(x.lo, 59797)) % 65536,
            lo |-> MulLow16(x.lo, 59797)]
  IN [hi |-> Xor(m.hi, m.hi \div 8192),
      lo |-> Xor(m.lo, (m.hi % 8192) * 8 + m.lo \div 8192)]

RECURSIVE MurmurFrom(_, _, _)
MurmurFrom(str, i, h) ==
  IF i > Len(str) THEN h
  ELSE LET next == MurmurStep(h, CharCode(CharAt(str, i)))
       IN  \* the test on next.hi has the step evaluated before the loop goes on
           IF next.hi >= 0 THEN MurmurFrom(str, i + 1, next) ELSE next

\* The u32 [hi, lo] in base 36.
RECURSIVE Base36(_)
Base36(h) ==
  LET rest == (h.hi % 36) * 65536 + h.lo
      quot == [hi |-> h.hi \div 36 + (rest \div 36) \div 65536, lo |-> (rest \div 36) % 65536]
      digit == CharAt("0123456789abcdefghijklmnopqrstuvwxyz", (rest % 36) + 1)
  IN IF quot.hi = 0 /\ quot.lo = 0 THEN digit ELSE Base36(quot) \o digit

\* A leading digit is mapped to a letter: 0 -> g, ..., 9 -> p.
LetterFirst(hash) ==
  IF IsDigit(CharAt(hash, 1))
  THEN CharAt("ghijklmnop", CharCode(CharAt(hash, 1)) - 47) \o SubSeq(hash, 2, Len(hash))
  ELSE hash

(***************************************************************************)
(* ClassNameGenerator (packages/core/src/selectors.ts; its tests are in    *)
(* src/packages/core/src/colors.ts)                                        *)
(***************************************************************************)
\* The u32 of a small natural.
U32(n) == [hi |-> n \div 65536, lo |-> n % 65536]

\* minifyClassName(index, seed): z0, z1, ..., zz, z10, ...
minifyClassName(index, seed) == "z" \o Base36(U32(index))

GeneratorConfigs ==
  { [prefix |-> "silk", minifyClassNames |-> FALSE],
    [prefix |-> "custom", minifyClassNames |-> FALSE],
    [prefix |-> "silk", minifyClassNames |-> TRUE] }

GeneratorKeys == {"test1", "test2", "padding-4"}

\* The name of a key that is not in the cache yet.
FreshName(key) ==
  IF cngConfig.minifyClassNames THEN minifyClassName(cngCounter, cngCounter)
  ELSE cngConfig.prefix \o "-" \o LetterFirst(Base36(MurmurFrom(key, 1, U32(0))))

\* new ClassNameGenerator(config)
ClassNameGeneratorNew(config) ==
  /\ cngConfig' = config
  /\ cngCache' = <<>>
  /\ cngCounter' = 0
  /\ cngReturned' = {}
  /\ cngIssued' = {}
  /\ cngLastOp' = "new"

\* A generate() that does not consult the cache.
generate_unmemoized(key) ==
  /\ Cardinality(cngReturned) < MaxGenerated
  /\ cngCache' = MapSet(cngCache, key, minifyClassName(cngCounter, cngCounter))
  /\ cngCounter' = cngCounter + 1
  /\ cngReturned' = cngReturned \cup {<<key, minifyClassName(cngCounter, cngCounter)>>}
  /\ cngIssued' = cngIssued \cup {<<key, minifyClassName(cngCounter, cngCounter)>>}
  /\ cngLastOp' = "generate"
  /\ UNCHANGED cngConfig

\* generate(key): the cached name, or a fresh one that is cached and counted
generate(key) ==
  /\ Cardinality(cngReturned) < MaxGenerated
  /\ IF MapHas(cngCache, key)
     THEN /\ cngReturned' = cngReturned \cup {<<key, MapGetV(cngCache, key)>>}
          /\ cngIssued' = cngIssued \cup {<<key, MapGetV(cngCache, key)>>}
          /\ UNCHANGED <<cngCache, cngCounter>>
     ELSE /\ cngCache' = MapSet(cngCache, key, FreshName(key))
          /\ cngCounter' = cngCounter + 1
          /\ cngReturned' = cngReturned \cup {<<key, FreshName(key)>>}
          /\ cngIssued' = cngIssued \cup {<<key, FreshName(key)>>}
  /\ cngLastOp' = "generate"
  /\ UNCHANGED cngConfig

\* reset(): clears the cache and the counter together
reset ==
  /\ cngCache' = <<>>
  /\ cngCounter' = 0
  /\ cngReturned' = {}
  /\ cngLastOp' = "reset"
  /\ UNCHANGED <<cngConfig, cngIssued>>

\* getAll()
getAll == cngCache

InitGenerator ==
  /\ cngConfig = [prefix |-> "silk", minifyClassNames |-> FALSE]
  /\ cngCache = <<>>
  /\ cngCounter = 0
  /\ cngReturned = {}
  /\ cngIssued = {}
  /\ cngLastOp = "new"

NextGenerator ==
  \/ \E config \in GeneratorConfigs :
       ClassNameGeneratorNew(config)
         /\ UNCHANGED <<ssrVars, viteVars, layerVars, mergeVars, variantVars, nestingVars,
                        transformVars, nestedCSSVars, convertVars, lightningVars, colorVars, virtualVars, svelteVars, bundleVars, heapVars>>
  \/ \E key \in GeneratorKeys :
       generate(key)
         /\ UNCHANGED <<ssrVars, viteVars, layerVars, mergeVars, variantVars, nestingVars,
                        transformVars, nestedCSSVars, convertVars, lightningVars, colorVars, virtualVars, svelteVars, bundleVars, heapVars>>
  \/ reset
       /\ UNCHANGED <<ssrVars, viteVars, layerVars, mergeVars, variantVars, nestingVars,
                      transformVars, nestedCSSVars, convertVars, lightningVars, colorVars, virtualVars, svelteVars, bundleVars, heapVars>>

(***************************************************************************)
(* Colour scales (src/packages/core/src/colors.ts)                         *)
(*                                                                         *)
(* A percentage is the exact fraction [num, den] of the JavaScript number, *)
(* and an emitted colour keeps the parts of its text: a plain colour is    *)
(* [kind |-> "color", value], and                                          *)
(* "color-mix(in <colorSpace>, <color1> <percentage>%, <color2>)" is       *)
(* [kind |-> "color-mix", colorSpace, color1, percentage, color2].         *)
(***************************************************************************)
\* An options field that was not given.
NoSteps == -1
NoColorSpace == ""

\* a / b * 100
PercentOf(a, b) == [num |-> a * 100, den |-> b]

\* 100 - percentage
HundredMinus(percentage) ==
  [num |-> 100 * percentage.den - percentage.num, den |-> percentage.den]

PlainColor(color) == [kind |-> "color", value |-> color]

colorMix(color1, color2, percentage, colorSpace) ==
  [kind |-> "color-mix",
   colorSpace |-> IF colorSpace = NoColorSpace THEN "oklch" ELSE colorSpace,
   color1 |-> color1, percentage |-> percentage, color2 |-> color2]

lighten(color, percentage, colorSpace) ==
  colorMix("white", color, HundredMinus(percentage), colorSpace)

darken(color, percentage, colorSpace) ==
  colorMix("black", color, HundredMinus(percentage), colorSpace)

\* The shade pushed by iteration i of the loop (i counts from 0).
ScaleShade(baseColor, steps, colorSpace, i) ==
  LET midpoint == steps \div 2
  IN  IF i < midpoint
      THEN lighten(baseColor, PercentOf(midpoint - i, midpoint), colorSpace)
      ELSE IF i = midpoint
      THEN PlainColor(baseColor)
      ELSE darken(baseColor, PercentOf(i - midpoint, steps - midpoint - 1), colorSpace)

createColorScale(baseColor, options) ==
  LET steps == IF options.steps = NoSteps THEN 9 ELSE options.steps
      colorSpace == IF options.colorSpace = NoColorSpace THEN "oklch" ELSE options.colorSpace
  IN  [n \in 1..steps |-> ScaleShade(baseColor, steps, colorSpace, n - 1)]

BaseColors == {"blue", "oklch(0.7 0.2 250)", "#3b82f6"}
ColorSpaces == {"oklch", "lch", "lab", "srgb"}
ScaleOptions ==
  [steps : {NoSteps} \cup (1..MaxSteps), colorSpace : {NoColorSpace} \cup ColorSpaces]

CreateColorScaleCall(baseColor, options) ==
  /\ csArgs' = [called |-> TRUE, baseColor |-> baseColor, options |-> options]
  /\ csScale' = createColorScale(baseColor, options)

InitColors ==
  /\ csArgs = NoCall
  /\ csScale = <<>>

NextColors ==
  \E baseColor \in BaseColors, options \in ScaleOptions :
    CreateColorScaleCall(baseColor, options)
      /\ UNCHANGED <<ssrVars, viteVars, layerVars, mergeVars, variantVars, nestingVars,
                     transformVars, nestedCSSVars, convertVars, lightningVars,
                     generatorVars,
                        virtualVars, svelteVars, bundleVars, heapVars>>

(***************************************************************************)
(* Virtual-module Vite plugin (src/unnamed/part_006)                       *)
(*                                                                         *)
(* A `string | null` is [isNull, text].  scanAndGenerate belongs to        *)
(* @sylphx/silk/codegen: a scan is started by a hook and settles in a      *)
(* later step, resolved with a CSS text or rejected.                       *)
(***************************************************************************)
NullString == [isNull |-> TRUE, text |-> ""]
Str(text) == [isNull |-> FALSE, text |-> text]

VIRTUAL_MODULE_PREFIX == "\\0virtual:"
srcDir == "./src"
virtualModuleId == "silk.css"
resolvedVirtualModuleId == VIRTUAL_MODULE_PREFIX \o virtualModuleId

\* What a scan resolves with.
ScanTexts == {"", ".a { color: red; }", ".b { color: blue; }"}
\* The files a hot update is reported for.
HotFiles == {"./src/App.tsx", "/project/src/App.tsx", "./src/theme.css"}

\* String.prototype.endsWith
EndsWith(s, suffix) ==
  Len(s) >= Len(suffix) /\ SubSeq(s, Len(s) - Len(suffix) + 1, Len(s)) = suffix

\* file.includes(srcDir) && /\.[jt]sx?$/.test(file)
HotFileMatches(file) ==
  /\ IndexOf(file, srcDir) > 0
  /\ \E ext \in {".js", ".jsx", ".ts", ".tsx"} : EndsWith(file, ext)

VmConfigResolved(command) ==
  /\ vmIsDevMode' = (command = "serve")
  /\ UNCHANGED <<vmGeneratedCSS, vmCalls, vmLastSuccess, vmHotReturn>>

\* buildStart() up to its await of scanAndGenerate
BuildStart ==
  /\ Len(vmCalls) < MaxScans
  /\ vmCalls' = Append(vmCalls, [hook |-> "buildStart", pc |-> "scanning",
                                 resolved |-> FALSE, css |-> "", threw |-> FALSE])
  /\ UNCHANGED <<vmGeneratedCSS, vmIsDevMode, vmLastSuccess, vmHotReturn>>

\* resolveId(id)
resolveId(id) == IF id = virtualModuleId THEN Str(resolvedVirtualModuleId) ELSE NullString

\* load(id)
load(id) ==
  IF id = resolvedVirtualModuleId
  THEN IF vmGeneratedCSS.isNull \/ vmGeneratedCSS.text = ""
       THEN Str("/* No CSS generated */")
       ELSE vmGeneratedCSS
  ELSE NullString

\* handleHotUpdate({ file }) up to its await of scanAndGenerate, or to its
\* return when the file is not watched or the plugin is not in dev mode
HandleHotUpdate(file) ==
  /\ Len(vmCalls) < MaxScans
  /\ IF vmIsDevMode /\ HotFileMatches(file)
     THEN /\ vmCalls' = Append(vmCalls, [hook |-> "handleHotUpdate", pc |-> "scanning",
                                         resolved |-> FALSE, css |-> "", threw |-> FALSE])
          /\ vmHotReturn' = "pending"
     ELSE /\ vmHotReturn' = "undefined"
          /\ UNCHANGED vmCalls
  /\ UNCHANGED <<vmGeneratedCSS, vmIsDevMode, vmLastSuccess>>

\* A settling in which a failed regeneration drops the CSS it had.
ScanSettles_clearing(i, resolved, css) ==
  /\ i \in 1..Len(vmCalls)
  /\ vmCalls[i].pc = "scanning"
  /\ vmCalls' = [vmCalls EXCEPT ![i] = [hook |-> vmCalls[i].hook, pc |-> "done",
                                        resolved |-> resolved,
                                        css |-> IF resolved THEN css ELSE "",
                                        threw |-> FALSE]]
  /\ vmGeneratedCSS' =
       IF resolved THEN Str(css)
       ELSE IF vmCalls[i].hook = "buildStart" THEN Str("/* Silk CSS generation failed */")
       ELSE NullString
  /\ vmLastSuccess' = IF resolved THEN Str(css) ELSE vmLastSuccess
  /\ vmHotReturn' = IF vmCalls[i].hook = "handleHotUpdate" THEN "settled" ELSE vmHotReturn
  /\ UNCHANGED vmIsDevMode

\* The scan of call i settles and the hook runs to its end: the assignment
\* of generatedCSS, or the catch block.
ScanSettles(i, resolved, css) ==
  /\ i \in 1..Len(vmCalls)
  /\ vmCalls[i].pc = "scanning"
  /\ vmCalls' = [vmCalls EXCEPT ![i] = [hook |-> vmCalls[i].hook, pc |-> "done",
                                        resolved |-> resolved,
                                        css |-> IF resolved THEN css ELSE "",
                                        threw |-> FALSE]]
  /\ vmGeneratedCSS' =
       IF resolved THEN Str(css)
       ELSE IF vmCalls[i].hook = "buildStart" THEN Str("/* Silk CSS generation failed */")
       ELSE vmGeneratedCSS
  /\ vmLastSuccess' = IF resolved THEN Str(css) ELSE vmLastSuccess
  /\ vmHotReturn' = IF vmCalls[i].hook = "handleHotUpdate" THEN "settled" ELSE vmHotReturn
  /\ UNCHANGED vmIsDevMode

InitVirtual ==
  /\ vmGeneratedCSS = NullString
  /\ vmIsDevMode = TRUE
  /\ vmCalls = <<>>
  /\ vmLastSuccess = NullString
  /\ vmHotReturn = "none"

NextVirtual ==
  \/ \E command \in {"build", "serve"} :
       VmConfigResolved(command)
         /\ UNCHANGED <<ssrVars, viteVars, layerVars, mergeVars, variantVars, nestingVars,
                        transformVars, nestedCSSVars, convertVars, lightningVars,
                        generatorVars, colorVars,
                        svelteVars, bundleVars, heapVars>>
  \/ BuildStart
       /\ UNCHANGED <<ssrVars, viteVars, layerVars, mergeVars, variantVars, nestingVars,
                      transformVars, nestedCSSVars, convertVars, lightningVars,
                      generatorVars, colorVars,
                        svelteVars, bundleVars, heapVars>>
  \/ \E file \in HotFiles :
       HandleHotUpdate(file)
         /\ UNCHANGED <<ssrVars, viteVars, layerVars, mergeVars, variantVars, nestingVars,
                        transformVars, nestedCSSVars, convertVars, lightningVars,
                        generatorVars, colorVars,
                        svelteVars, bundleVars, heapVars>>
  \/ \E i \in 1..MaxScans, resolved \in BOOLEAN, css \in ScanTexts :
       ScanSettles(i, resolved, css)
         /\ UNCHANGED <<ssrVars, viteVars, layerVars, mergeVars, variantVars, nestingVars,
                        transformVars, nestedCSSVars, convertVars, lightningVars,
                        generatorVars, colorVars,
                        svelteVars, bundleVars, heapVars>>

(***************************************************************************)
(* Svelte bindings: mergeStyles (src/packages/svelte-bindings/src/index.ts)*)
(***************************************************************************)
\* styles.filter(Boolean)
FilterBoolean(styles) == SelectSeq(styles, LAMBDA style : ~IsFalsy(style))

\* Object.assign(target, ...sources): every own entry of every source is
\* assigned, whatever its value.
RECURSIVE ObjectAssign(_, _)
ObjectAssign(target, sources) ==
  IF sources = <<>> THEN target
  ELSE ObjectAssign(Obj(AssignEntries(target.o, Head(sources).o)), Tail(sources))

svelteMergeStyles(styles) == ObjectAssign(Obj(<<>>), FilterBoolean(styles))

\* A mergeStyles(...styles) call of the bindings with one more argument than
\* the last one.
SvelteMergeStylesCall(style) ==
  /\ Len(svArgs) < MaxStyles
  /\ svArgs' = Append(svArgs, style)
  /\ svResult' = svelteMergeStyles(Append(svArgs, style))

\* mergeStyles() with no argument
SvelteMergeStylesEmpty ==
  /\ svArgs' = <<>>
  /\ svResult' = svelteMergeStyles(<<>>)

InitSvelte ==
  /\ svArgs = <<>>
  /\ svResult = Obj(<<>>)

NextSvelte ==
  \/ \E style \in StyleArgs :
       SvelteMergeStylesCall(style)
         /\ UNCHANGED <<ssrVars, viteVars, layerVars, mergeVars, variantVars, nestingVars,
                        transformVars, nestedCSSVars, convertVars, lightningVars,
                        generatorVars, colorVars, virtualVars,
                        bundleVars, heapVars>>
  \/ SvelteMergeStylesEmpty
       /\ UNCHANGED <<ssrVars, viteVars, layerVars, mergeVars, variantVars, nestingVars,
                      transformVars, nestedCSSVars, convertVars, lightningVars,
                      generatorVars, colorVars, virtualVars,
                        bundleVars, heapVars>>

(***************************************************************************)
(* Vite plugin: transformIndexHtml and generateBundle                      *)
(* (src/packages/vite-plugin/src/index.ts)                                 *)
(***************************************************************************)
\* The concatenation of parts[lo..hi].
RECURSIVE ConcatRange(_, _, _)
ConcatRange(parts, lo, hi) ==
  IF lo > hi THEN ""
  ELSE IF lo = hi THEN parts[lo]
  ELSE ConcatRange(parts, lo, (lo + hi) \div 2) \o ConcatRange(parts, (lo + hi) \div 2 + 1, hi)

\* The characters of s at the positions that satisfy Keep, in order.
KeepChars(s, Keep(_, _)) ==
  LET kept == SelectSeq([i \in 1..Len(s) |-> i], LAMBDA i : Keep(s, i))
  IN ConcatRange([k \in 1..Len(kept) |-> CharAt(s, kept[k])], 1, Len(kept))

\* css.replace(/\s+/g, ' ')
CollapseSpaces(css) ==
  LET spaced == ConcatRange([i \in 1..Len(css) |->
                               IF IsSpace(CharAt(css, i)) THEN " " ELSE CharAt(css, i)],
                            1, Len(css))
  IN KeepChars(spaced, LAMBDA s, i : CharAt(s, i) # " " \/ i = 1 \/ CharAt(s, i - 1) # " ")

IsCSSPunctuation(c) == c \in {"{", "}", ":", ";", ","}

\* .replace(/\s*([{}:;,])\s*/g, '$1') on a text whose spaces are single
TightenPunctuation(css) ==
  KeepChars(css, LAMBDA s, i :
    \/ CharAt(s, i) # " "
    \/ ~ \/ (i > 1 /\ IsCSSPunctuation(CharAt(s, i - 1)))
         \/ (i < Len(s) /\ IsCSSPunctuation(CharAt(s, i + 1))))

\* .replace(/;}/g, '}')
DropLastSemicolons(css) ==
  KeepChars(css, LAMBDA s, i : ~(CharAt(s, i) = ";" /\ i < Len(s) /\ CharAt(s, i + 1) = "}"))

minifyCSS(css) == Trim(DropLastSemicolons(TightenPunctuation(CollapseSpaces(css))))

\* generateCSS() of the plugin
ViteGenerateCSS ==
  LET css == Join([i \in 1..Len(cssRules) |-> cssRules[i].v], "\n")
      minify == IF vbOptions.minify = "undefined" THEN isBuild ELSE vbOptions.minify = "true"
  IN IF minify THEN minifyCSS(css) ELSE css

\* The option objects silk() is called with.
PluginOptions == [inject : BOOLEAN, outputFile : {"silk.css"}, minify : {"undefined", "false"}]

\* The pages Vite hands to transformIndexHtml or puts into the bundle.
HtmlSources ==
  { "<html><head><title>App</title></head><body></body></html>",
    "<div id=app></div>" }

\* The metadata of the files compiled during one build.
BundleMetaLists == {<<"c1">>, <<"c2">>}

\* silk(options): a new plugin instance
silk(options) ==
  /\ vbOptions' = options
  /\ cssRules' = <<>>
  /\ isBuild' = FALSE
  /\ lastReturn' = "none"
  /\ lastCall' = NoCall
  /\ vbPage' = ""
  /\ vbBundle' = <<>>
  /\ vbGenerated' = "no"

\* transformIndexHtml.handler(html); the page returned is kept in vbPage
transformIndexHtml(html) ==
  /\ vbGenerated = "no"
  /\ vbPage' =
       IF ~vbOptions.inject THEN html
       ELSE IF ViteGenerateCSS = "" THEN html
       ELSE IF IndexOf(html, "</head>") > 0
            THEN ReplaceFirst(html, "</head>",
                              "<style data-silk>" \o ViteGenerateCSS \o "</style>" \o "\n</head>")
            ELSE "<style data-silk>" \o ViteGenerateCSS \o "</style>" \o "\n" \o html
  /\ UNCHANGED <<vbOptions, vbBundle, vbGenerated, viteVars>>

\* Vite puts a page into the bundle as the asset index.html: the page the
\* hook returned last, or a page that did not pass the hook.
BundleHtml(source) ==
  /\ vbGenerated = "no"
  /\ vbBundle' = MapSet(vbBundle, "index.html", source)
  /\ UNCHANGED <<vbOptions, vbPage, vbGenerated, viteVars>>

\* html.replace(/<style data-silk>[\s\S]*?<\/style>/, linkTag)
ReplaceInlineStyle(html, linkTag) ==
  LET open == IndexOf(html, "<style data-silk>")
      close == IF open = 0 THEN 0
               ELSE IndexFrom(html, "</style>", open + Len("<style data-silk>"))
  IN IF open = 0 \/ close = 0 THEN html
     ELSE SubSeq(html, 1, open - 1) \o linkTag
            \o SubSeq(html, close + Len("</style>"), Len(html))

\* The loop over the bundle: every .html asset gets the link tag.
UpdateHtmlAssets(bundle, linkTag) ==
  [i \in 1..Len(bundle) |->
     IF EndsWith(bundle[i].k, ".html")
     THEN [k |-> bundle[i].k,
           v |-> ReplaceFirst(ReplaceInlineStyle(bundle[i].v, linkTag),
                              "</head>", linkTag \o "\n</head>")]
     ELSE bundle[i]]

\* The emitFile calls: the stylesheet and its compressed versions.
RECURSIVE EmitFiles(_, _)
EmitFiles(bundle, files) ==
  IF files = <<>> THEN bundle
  ELSE EmitFiles(MapSet(bundle, Head(files).k, Head(files).v), Tail(files))

\* generateBundle(_, bundle); brotli and gzip tell whether each compression
\* produced an asset
generateBundle(brotli, gzip) ==
  /\ vbGenerated = "no"
  /\ IF ~isBuild \/ ViteGenerateCSS = ""
     THEN UNCHANGED vbBundle
     ELSE vbBundle' =
            EmitFiles(UpdateHtmlAssets(vbBundle,
                                       "<link rel=\"stylesheet\" href=\"/"
                                         \o vbOptions.outputFile \o "\">"),
                      <<[k |-> vbOptions.outputFile, v |-> ViteGenerateCSS]>>
                        \o (IF brotli THEN <<[k |-> vbOptions.outputFile \o ".br", v |-> "br"]>>
                            ELSE <<>>)
                        \o (IF gzip THEN <<[k |-> vbOptions.outputFile \o ".gz", v |-> "gz"]>>
                            ELSE <<>>))
  /\ vbGenerated' = IF ~isBuild \/ ViteGenerateCSS = "" THEN "returned" ELSE "emitted"
  /\ UNCHANGED <<vbOptions, vbPage, viteVars>>

InitBundle ==
  /\ vbOptions = [inject |-> TRUE, outputFile |-> "silk.css", minify |-> "undefined"]
  /\ vbPage = ""
  /\ vbBundle = <<>>
  /\ vbGenerated = "no"

NextBundle ==
  \/ \E options \in PluginOptions :
       silk(options)
         /\ UNCHANGED <<ssrVars, layerVars, mergeVars, variantVars, nestingVars,
                        transformVars, nestedCSSVars, convertVars, lightningVars,
                        generatorVars, colorVars, virtualVars, svelteVars,
                        heapVars>>
  \/ \E command \in {"build", "serve"} :
       configResolved(command)
         /\ UNCHANGED <<ssrVars, layerVars, mergeVars, variantVars, nestingVars,
                        transformVars, nestedCSSVars, convertVars, lightningVars,
                        generatorVars, colorVars, virtualVars, svelteVars, bundleVars, heapVars>>
  \/ \E meta \in BundleMetaLists :
       transform("silk", "a.tsx", "meta", meta)
         /\ UNCHANGED <<ssrVars, layerVars, mergeVars, variantVars, nestingVars,
                        transformVars, nestedCSSVars, convertVars, lightningVars,
                        generatorVars, colorVars, virtualVars, svelteVars, bundleVars, heapVars>>
  \/ \E html \in HtmlSources :
       transformIndexHtml(html)
         /\ UNCHANGED <<ssrVars, layerVars, mergeVars, variantVars, nestingVars,
                        transformVars, nestedCSSVars, convertVars, lightningVars,
                        generatorVars, colorVars, virtualVars, svelteVars,
                        heapVars>>
  \/ \E source \in HtmlSources \cup {vbPage} :
       (source # "" /\ BundleHtml(source))
         /\ UNCHANGED <<ssrVars, layerVars, mergeVars, variantVars, nestingVars,
                        transformVars, nestedCSSVars, convertVars, lightningVars,
                        generatorVars, colorVars, virtualVars, svelteVars,
                        heapVars>>
  \/ \E brotli \in BOOLEAN, gzip \in BOOLEAN :
       generateBundle(brotli, gzip)
         /\ UNCHANGED <<ssrVars, layerVars, mergeVars, variantVars, nestingVars,
                        transformVars, nestedCSSVars, convertVars, lightningVars,
                        generatorVars, colorVars, virtualVars, svelteVars,
                        heapVars>>

(***************************************************************************)
(* mergeStyles on object references (src/packages/core/src/merge-styles.ts)*)
(*                                                                         *)
(* The heap is a sequence of objects, an object's address its position; an *)
(* object is its [k, v] entries and a value is a scalar, undefined, null   *)
(* or a reference Ref(address).                                            *)
(***************************************************************************)
Ref(address) == [t |-> "ref", s |-> "", o |-> <<address>>]
IsRef(val) == val.t = "ref"
Deref(heap, val) == heap[val.o[1]]

\* The caller's objects: fragments (1, 2, 3) and the style objects that hold
\* them; styles 4 and 6 hold the same fragment object, fragment 3 holds a
\* fragment itself.
CallerHeap ==
  << <<[k |-> "bg", v |-> Scalar("red")]>>,
     <<[k |-> "color", v |-> Scalar("blue")]>>,
     <<[k |-> "bg", v |-> Scalar("blue")], [k |-> "_focus", v |-> Ref(1)]>>,
     <<[k |-> "bg", v |-> Scalar("red")], [k |-> "_hover", v |-> Ref(1)]>>,
     <<[k |-> "_hover", v |-> Ref(2)], [k |-> "bg", v |-> Scalar("blue")]>>,
     <<[k |-> "_hover", v |-> Ref(1)], [k |-> "@md", v |-> Ref(2)]>>,
     <<[k |-> "_hover", v |-> Ref(3)], [k |-> "px", v |-> Undefined]>>,
     <<[k |-> "_hover", v |-> Null], [k |-> "px", v |-> Scalar("4")]>> >>

\* The arguments of a call: references to the caller's style objects, or false.
HeapStyleArgs == {Ref(a) : a \in 4..8} \cup {False}

\* An inner loop that merges a fragment into the fragment already held, and
\* holds the argument's own fragment when there is none yet.
HeapMergeEntry_inPlace(heap, merged, key, value) ==
  IF IsNullish(value) THEN heap
  ELSE IF IsRef(value) /\ IsNestedKey(key) /\ MapHas(heap[merged], key)
          /\ IsRef(MapGetV(heap[merged], key))
       THEN [heap EXCEPT ![MapGetV(heap[merged], key).o[1]] =
               AssignEntries(heap[MapGetV(heap[merged], key).o[1]], Deref(heap, value))]
       ELSE [heap EXCEPT ![merged] = MapSet(heap[merged], key, value)]

\* The body of the inner loop on the heap: a fragment under a `_` / `@` key is
\* spread into a new object, together with the fragment merged[key] refers
\* to if there is one; any other value is assigned as it is.
HeapMergeEntry(heap, merged, key, value) ==
  IF IsNullish(value) THEN heap
  ELSE IF IsRef(value) /\ IsNestedKey(key)
       THEN LET held == IF MapHas(heap[merged], key) /\ IsRef(MapGetV(heap[merged], key))
                        THEN Deref(heap, MapGetV(heap[merged], key))
                        ELSE <<>>
                fresh == AssignEntries(AssignEntries(<<>>, held), Deref(heap, value))
                grown == Append(heap, fresh)
            IN [grown EXCEPT ![merged] = MapSet(grown[merged], key, Ref(Len(grown)))]
       ELSE [heap EXCEPT ![merged] = MapSet(heap[merged], key, value)]

RECURSIVE HeapMergeEntries(_, _, _)
HeapMergeEntries(heap, merged, entries) ==
  IF entries = <<>> THEN heap
  ELSE HeapMergeEntries(HeapMergeEntry(heap, merged, Head(entries).k, Head(entries).v),
                        merged, Tail(entries))

RECURSIVE HeapMergeFrom(_, _, _)
HeapMergeFrom(heap, merged, styles) ==
  IF styles = <<>> THEN heap
  ELSE IF IsFalsy(Head(styles)) THEN HeapMergeFrom(heap, merged, Tail(styles))
       ELSE HeapMergeFrom(HeapMergeEntries(heap, merged, Deref(heap, Head(styles))),
                          merged, Tail(styles))

\* mergeStyles(...styles) on a heap: `merged` is allocated first; the heap
\* after the call.
HeapMergeStyles(heap, styles) == HeapMergeFrom(Append(heap, <<>>), Len(heap) + 1, styles)

\* A mergeStyles(...styles) call with one more argument than the last one,
\* on the caller's objects as the calls so far have left them.
HeapMergeStylesCall(style) ==
  /\ Len(hpArgs) < MaxStyles
  /\ hpArgs' = Append(hpArgs, style)
  /\ hpHeap' = HeapMergeStyles(SubSeq(hpHeap, 1, Len(CallerHeap)), Append(hpArgs, style))
  /\ hpResult' = Len(CallerHeap) + 1

\* mergeStyles() with no argument
HeapMergeStylesEmpty ==
  /\ hpArgs' = <<>>
  /\ hpHeap' = HeapMergeStyles(SubSeq(hpHeap, 1, Len(CallerHeap)), <<>>)
  /\ hpResult' = Len(CallerHeap) + 1

InitHeap ==
  /\ hpHeap = CallerHeap
  /\ hpArgs = <<>>
  /\ hpResult = 0

NextHeap ==
  \/ \E style \in HeapStyleArgs :
       HeapMergeStylesCall(style)
         /\ UNCHANGED <<ssrVars, viteVars, layerVars, mergeVars, variantVars, nestingVars,
                        transformVars, nestedCSSVars, convertVars, lightningVars,
                        generatorVars, colorVars, virtualVars, svelteVars, bundleVars>>
  \/ HeapMergeStylesEmpty
       /\ UNCHANGED <<ssrVars, viteVars, layerVars, mergeVars, variantVars, nestingVars,
                      transformVars, nestedCSSVars, convertVars, lightningVars,
                      generatorVars, colorVars, virtualVars, svelteVars, bundleVars>>

vars == <<registry, reqPc, reqCss, dropped, cssRules, isBuild, lastReturn, lastCall,
         lmConfig, lmRules, lmAdded, msArgs, msResult,
         cvConfig, cvCalled, cvProps, cvMatched, cvStyles, cvResult,
         grRules, grGrouped, tsCalls, gnArgs, gnResult,
         cvtLines, cvtConfig, cvtGrouped, cvtResult,
         lightningcss, wasmInitialized, optPc, optCss, optLightning, optResult, optFailed,
         initInvocations, transformBeforeInit,
         cngConfig, cngCache, cngCounter, cngReturned, cngIssued, cngLastOp,
         csArgs, csScale,
         vmGeneratedCSS, vmIsDevMode, vmCalls, vmLastSuccess, vmHotReturn,
         svArgs, svResult,
         vbOptions, vbPage, vbBundle, vbGenerated,
         hpHeap, hpArgs, hpResult>>

Init == InitSSR /\ InitVite /\ InitLayers /\ InitMerge /\ InitVariant /\ InitNesting
          /\ InitTransform /\ InitNestedCSS /\ InitConvert
          /\ InitLightning /\ InitGenerator /\ InitColors /\ InitVirtual /\ InitSvelte /\ InitBundle /\ InitHeap

SpecSSR == Init /\ [][NextSSR]_vars
SpecVite == Init /\ [][NextVite]_vars
SpecLayers == Init /\ [][NextLayers]_vars
SpecMerge == Init /\ [][NextMerge]_vars
SpecVariant == Init /\ [][NextVariant]_vars
SpecNesting == Init /\ [][NextNesting]_vars
SpecTransform == Init /\ [][NextTransform]_vars
SpecNestedCSS == Init /\ [][NextNestedCSS]_vars
SpecConvert == Init /\ [][NextConvert]_vars
SpecLightning == Init /\ [][NextLightning]_vars
SpecGenerator == Init /\ [][NextGenerator]_vars
SpecColors == Init /\ [][NextColors]_vars
SpecVirtual == Init /\ [][NextVirtual]_vars
SpecSvelte == Init /\ [][NextSvelte]_vars
SpecBundle == Init /\ [][NextBundle]_vars
SpecHeap == Init /\ [][NextHeap]_vars

\* C1: no rule put into the registry by css() is removed by cleanup() without
\* having been part of the css string of the extractCriticalCSS() call that
\* produced that cleanup.
C1_NoRuleDroppedByCleanup == dropped = {}

AddedTo(layer) ==
  LET e == SelectSeq(lmAdded, LAMBDA x : x.layer = layer)
  IN [i \in 1..Len(e) |-> e[i].css]

\* A sequence without its repeated elements, each kept at its first place.
RECURSIVE FirstOccurrences(_)
FirstOccurrences(seq) ==
  IF seq = <<>> THEN <<>>
  ELSE LET init == SubSeq(seq, 1, Len(seq) - 1)
           last == seq[Len(seq)]
       IN IF last \in Range(init) THEN FirstOccurrences(init)
          ELSE Append(FirstOccurrences(init), last)

\* The add() calls of the step just taken (empty for any other step).
NewAdds ==
  IF Len(lmAdded') > Len(lmAdded) /\ SubSeq(lmAdded', 1, Len(lmAdded)) = lmAdded
  THEN SubSeq(lmAdded', Len(lmAdded) + 1, Len(lmAdded'))
  ELSE <<>>

\* C4: getLayer(L) is the distinct strings added to L, each once, in order of
\* first insertion, and size() grows by exactly the number of strings that are
\* new to their layer (by 1 for an add of a new string, by 0 for a re-add).
C4_LayerIsOrderedSet ==
  /\ [](\A layer \in CascadeLayer : getLayer(layer) = FirstOccurrences(AddedTo(layer)))
  /\ [][NewAdds # <<>> =>
          size' = size + Cardinality({NewAdds[i].css : i \in 1..Len(NewAdds)}
                                       \ Range(getLayer(NewAdds[1].layer)))]_vars

\* A string was added, another one after it, and the first one again.
C4_Witness ==
  /\ Len(lmAdded) = 3
  /\ lmAdded[1] = lmAdded[3]
  /\ lmAdded[2].layer = lmAdded[1].layer
  /\ lmAdded[2].css # lmAdded[1].css
  /\ Len(getLayer(lmAdded[1].layer)) = 2

\* The lines of the generated CSS, and the line that opens a layer's block.
OutputLines == Split(generateCSS, "\n")
BlockLine(layer) == "@layer " \o layer \o " {"
BlockAt(lines, layer) == FirstIndex(lines, BlockLine(layer))
BlockCount(lines, layer) == Cardinality({i \in 1..Len(lines) : lines[i] = BlockLine(layer)})

\* A layer has text when its rules, joined, hold a non-whitespace character.
HasText(layer) == Trim(Join(getLayer(layer), "\n")) # ""

\* C5: with layers enabled, every layer of the CascadeLayer set that received
\* rule text via add() has its `@layer <name> {` block in generateCSS(), and
\* every rule of such a layer is in the generated CSS.
C5_EveryHeldLayerEmitted ==
  lmConfig.enabled =>
    LET lines == OutputLines
    IN \A layer \in CascadeLayer :
         HasText(layer) =>
           /\ BlockCount(lines, layer) = 1
           /\ \A rule \in Range(getLayer(layer)) : rule \in Range(lines)

StyleObjects == SelectSeq(msArgs, LAMBDA a : ~IsFalsy(a))

\* The keys met in the arguments.
ArgKeys == UNION {MapKeys(StyleObjects[i].o) : i \in 1..Len(StyleObjects)}

\* The last argument that gives `key` a value other than undefined / null.
Definers(key) == {i \in 1..Len(StyleObjects) : ~IsNullish(Prop(StyleObjects[i], key))}
LastOf(S) == CHOOSE i \in S : \A j \in S : j <= i

\* For a nested key: the last fragment that lists the inner property.
InnerDefiners(key, prop) ==
  {i \in Definers(key) : MapHas(Prop(StyleObjects[i], key).o, prop)}

\* C7: a plain key holds the value of the last argument that defines it; a
\* `_` / `@` key whose values are objects holds the property-wise union of the
\* arguments' fragments, the later argument winning per inner property.
C7_MergeStylesLaw ==
  /\ MapKeys(msResult.o) = {key \in ArgKeys : Definers(key) # {}}
  /\ \A key \in MapKeys(msResult.o) :
       IF IsNestedKey(key)
       THEN LET frag == Prop(msResult, key)
                inner == UNION {MapKeys(Prop(StyleObjects[i], key).o) : i \in Definers(key)}
            IN /\ IsObject(frag)
               /\ MapKeys(frag.o) = inner
               /\ \A prop \in inner :
                    Prop(frag, prop)
                      = Prop(Prop(StyleObjects[LastOf(InnerDefiners(key, prop))], key), prop)
       ELSE Prop(msResult, key) = Prop(StyleObjects[LastOf(Definers(key))], key)

\* Two arguments carry `_hover` fragments with different properties and the
\* result holds both; `bg` is set twice and the later value is kept.
C7_Witness ==
  /\ Len(msArgs) >= 2
  /\ \E i, j \in 1..Len(msArgs) :
       /\ i < j
       /\ IsObject(msArgs[i]) /\ IsObject(msArgs[j])
       /\ Prop(msArgs[i], "_hover") = Obj(<<[k |-> "bg", v |-> Scalar("red")]>>)
       /\ Prop(msArgs[j], "_hover") = Obj(<<[k |-> "color", v |-> Scalar("blue")]>>)
       /\ Prop(msArgs[i], "bg") = Scalar("red")
       /\ Prop(msArgs[j], "bg") = Scalar("blue")
  /\ Prop(Prop(msResult, "_hover"), "bg") = Scalar("red")
  /\ Prop(Prop(msResult, "_hover"), "color") = Scalar("blue")
  /\ Prop(msResult, "bg") = Scalar("blue")

\* The value a dimension has for the call: the input value if the props list
\* the dimension, else the default, else undefined.
Effective(dimension) ==
  IF MapHas(cvProps, dimension) THEN MapGetV(cvProps, dimension)
  ELSE IF MapHas(cvConfig.defaultVariants, dimension)
       THEN MapGetV(cvConfig.defaultVariants, dimension)
       ELSE Undefined

\* The style fragments selected by the dimensions.
SelectedFragments ==
  {VariantStyle(cvConfig, d, Effective(d)) :
     d \in {x \in MapKeys(cvProps) \cup MapKeys(cvConfig.defaultVariants) :
              ~IsFalsy(Effective(x)) /\ ~IsFalsy(VariantStyle(cvConfig, x, Effective(x)))}}

\* Whether every dimension of a compound's `when` has the effective value.
WhenHolds(compound) ==
  \A d \in MapKeys(compound.when) : MapGetV(compound.when, d) = Effective(d)

\* The matching compounds' styles, in declaration order.
MatchingStyles ==
  LET hit == SelectSeq(cvConfig.compoundVariants, WhenHolds)
  IN [i \in 1..Len(hit) |-> hit[i].style]

\* C8: the style returned is mergeStyles of the selected dimension fragments
\* followed by the matching compound fragments in declaration order; a plain
\* property that a matching compound defines has the value of the last
\* matching compound that defines it, whatever the dimension fragments say.
C8_VariantMergeLaw ==
  cvCalled =>
    LET nDim == Len(cvStyles) - Len(MatchingStyles)
    IN /\ nDim >= 0
       /\ nDim = Cardinality(SelectedFragments)
       /\ {cvStyles[i] : i \in 1..nDim} = SelectedFragments
       /\ SubSeq(cvStyles, nDim + 1, Len(cvStyles)) = MatchingStyles
       /\ cvResult = mergeStyles(cvStyles)
       /\ \A key \in UNION {MapKeys(MatchingStyles[i].o) : i \in 1..Len(MatchingStyles)} :
            LET defs == {i \in 1..Len(MatchingStyles) : ~IsNullish(Prop(MatchingStyles[i], key))}
            IN (~IsNestedKey(key) /\ defs # {})
                 => Prop(cvResult, key) = Prop(MatchingStyles[LastOf(defs)], key)

\* primary + lg with both compounds that match it: `px` comes from the
\* compound, not from `lg`, and `shadow` from the compound declared last.
C8_Witness ==
  /\ cvCalled
  /\ Len(cvMatched) = 2
  /\ cvMatched[1] # cvMatched[2]
  /\ Effective("color") = Scalar("primary")
  /\ Effective("size") = Scalar("lg")
  /\ Prop(cvStyles[Len(cvStyles)], "shadow") = Scalar("md")
  /\ Prop(cvResult, "shadow") = Scalar("md")
  /\ Prop(cvResult, "px") = Scalar("9")

\* C9: a compound variant's style is pushed if and only if every dimension of
\* its `when` equals the value of the props merged over defaultVariants.
C9_CompoundIffAllMatch ==
  cvCalled =>
    \A i \in 1..Len(cvConfig.compoundVariants) :
      (i \in Range(cvMatched)) <=> WhenHolds(cvConfig.compoundVariants[i])

\* One compound matches through a default, another one is ruled out by the
\* input value of one of its two dimensions.
C9_Witness ==
  /\ cvCalled
  /\ Len(cvConfig.compoundVariants) = 2
  /\ cvMatched = <<2>>
  /\ Len(cvConfig.compoundVariants[1].when) = 2
  /\ ~MapHas(cvProps, "size")
  /\ Effective("size") = Scalar("lg")
  /\ Effective("color") = Scalar("secondary")

\* The rules of the last call that parse, as [selector, declarations].
ParsedRules ==
  LET ok == SelectSeq(grRules, RuleMatches)
  IN [i \in 1..Len(ok) |-> parseRule(ok[i])]

\* A selector with no pseudo-class, pseudo-element or attribute part.
IsPlainSelector(selector) == IndexOf(selector, ":") = 0 /\ IndexOf(selector, "[") = 0

\* The pseudo / attribute parts the base-selector extraction removes.
RECURSIVE StrippedPart(_, _)
StrippedPart(s, i) ==
  IF i > Len(s) THEN ""
  ELSE IF PseudoMatchAt(s, i) > 0
       THEN SubSeq(s, i, i + PseudoMatchAt(s, i) - 1) \o StrippedPart(s, i + PseudoMatchAt(s, i))
       ELSE StrippedPart(s, i + 1)

\* C10: a rule with a plain selector is merged into that selector's `base`
\* (later rule wins per property); every other rule is in the `nested` map of
\* its base selector's group under the key `&` + stripped-off part.
C10_GroupingPartition ==
  \A i \in 1..Len(ParsedRules) :
    LET selector == ParsedRules[i].selector
        declarations == ParsedRules[i].declarations
    IN IF IsPlainSelector(selector)
       THEN /\ MapHas(grGrouped, selector)
            /\ \A prop \in MapKeys(declarations) :
                 LET same == {j \in 1..Len(ParsedRules) :
                                /\ ParsedRules[j].selector = selector
                                /\ MapHas(ParsedRules[j].declarations, prop)}
                 IN MapHas(MapGetV(grGrouped, selector).base, prop)
                    /\ MapGetV(MapGetV(grGrouped, selector).base, prop)
                         = MapGetV(ParsedRules[LastOf(same)].declarations, prop)
       ELSE /\ MapHas(grGrouped, extractBaseSelector(selector))
            /\ MapHas(MapGetV(grGrouped, extractBaseSelector(selector)).nested,
                      "&" \o StrippedPart(selector, 1))

\* The well-formed pairs of a styles string, in input order.
WellFormedPairs(styles) ==
  SelectSeq(Split(styles, ","), LAMBDA pair : IndexOf(pair, ":") >= 2)

\* The class names of a transformStyles result, in order.
TokensOf(result) == SelectSeq(Split(result, " "), LAMBDA tok : tok # "")

\* The rules of a generateAllCSS result, in order.
RulesOf(result) ==
  LET pieces == SelectSeq(Split(result, "}"), LAMBDA piece : piece # "")
  IN [k \in 1..Len(pieces) |-> pieces[k] \o "}"]

\* The per-pair outputs of call i: class names or rules.
OutputsOf(i) ==
  IF tsCalls[i].fn = "transformStyles" THEN TokensOf(tsCalls[i].result)
  ELSE RulesOf(tsCalls[i].result)

\* C3: whatever else is in the styles string and whatever calls came before,
\* a (property, value, prefix) gets the same class name from transformStyles
\* in every call, and the same rule text from generateAllCSS in every call.
C3_SameTokenInEveryCall ==
  LET pairs == [i \in 1..Len(tsCalls) |-> WellFormedPairs(tsCalls[i].styles)]
      outputs == [i \in 1..Len(tsCalls) |-> OutputsOf(i)]
  IN \A i \in 1..Len(tsCalls) :
       /\ Len(outputs[i]) = Len(pairs[i])
       /\ \A j \in 1..Len(tsCalls) :
            (tsCalls[i].fn = tsCalls[j].fn /\ tsCalls[i].prefix = tsCalls[j].prefix
               /\ Len(outputs[j]) = Len(pairs[j]))
              => \A a \in 1..Len(pairs[i]), b \in 1..Len(pairs[j]) :
                   pairs[i][a] = pairs[j][b] => outputs[i][a] = outputs[j][b]

\* bg:red alone, then bg:red after color:red: both calls made, same prefix.
C3_Witness ==
  /\ Len(tsCalls) = 2
  /\ tsCalls[1] = [fn |-> "transformStyles", styles |-> "bg:red", prefix |-> "silk",
                   result |-> "silk_bg_red_" \o hashString("background-colorred")]
  /\ tsCalls[2].fn = "transformStyles"
  /\ tsCalls[2].styles = "color:red,bg:red"
  /\ tsCalls[2].prefix = "silk"
  /\ TokensOf(tsCalls[2].result)[2] = tsCalls[1].result

\* The flat rules of an emitted text: its non-blank lines.
FlatRulesOf(text) == SelectSeq(Split(text, "\n"), LAMBDA line : Trim(line) # "")

\* Two declaration sets with the same properties and values.
SameDeclarations(a, b) == Range(a) = Range(b)

\* C11: a group with something to emit, emitted in expanded mode and
\* re-grouped from its flat rules, comes back as one group with the same base
\* selector, base declarations and nested entries under the same keys.
C11_ExpandRegroupRoundTrip ==
  (/\ gnArgs.called
   /\ ~gnArgs.config.enabled \/ gnArgs.config.legacyFallback
   /\ gnArgs.baseProps # <<>> \/ gnArgs.nestedRules # <<>>)
    => LET regrouped == groupRulesBySelector(FlatRulesOf(gnResult))
       IN /\ Len(regrouped) = 1
          /\ regrouped[1].k = gnArgs.baseSelector
          /\ SameDeclarations(regrouped[1].v.base, gnArgs.baseProps)
          /\ MapKeys(regrouped[1].v.nested) = MapKeys(gnArgs.nestedRules)
          /\ \A key \in MapKeys(gnArgs.nestedRules) :
               SameDeclarations(MapGetV(regrouped[1].v.nested, key),
                                MapGetV(gnArgs.nestedRules, key))

\* A rule of the shape `selector { decl }`: something before the first `{`,
\* something between it and the next `}`.
WellShaped(rule) ==
  \E open \in 2..Len(rule), close \in 1..Len(rule) :
    /\ CharAt(rule, open) = "{"
    /\ \A i \in 1..(open - 1) : CharAt(rule, i) # "{"
    /\ close > open + 1
    /\ CharAt(rule, close) = "}"
    /\ \A i \in (open + 1)..(close - 1) : CharAt(rule, i) # "}"

\* C12: a line that is not of the `selector { decl }` shape is skipped: the
\* grouping and the converted text are those of the same input without the
\* malformed lines.
C12_MalformedRulesSkipped ==
  LET kept == SelectSeq(cvtLines, WellShaped)
  IN /\ cvtGrouped = groupRulesBySelector(kept)
     /\ cvtResult = convertToNestedCSS(Join(kept, "\n"), cvtConfig)

\* A malformed line between two rules of the same base selector.
C12_Witness ==
  /\ cvtLines = <<".btn { color: blue; }", "oops", ".btn:hover { color: red; }">>
  /\ cvtConfig = defaultNestingConfig
  /\ cvtResult = ".btn {\n  color: blue;\n  &:hover { color: red; }\n}"

\* C13: no call's promise is rejected, and a call in which the import, the
\* initialisation or transform() failed resolves with optimizeCSS(css).
C13_EngineFailureFallsBack ==
  \A c \in OptCalls :
    /\ optResult[c].state # "rejected"
    /\ optPc[c] = "done" => optResult[c].state = "resolved"
    /\ (optPc[c] = "done" /\ optFailed[c]) => optResult[c] = optimizeCSS(optCss[c])

\* The engine failed in the first call and in a later one; both fell back.
C13_Witness ==
  /\ \A c \in {1, 2} : optPc[c] = "done" /\ optFailed[c] /\ optResult[c].by = "optimizeCSS"
  /\ lightningcss = "module"
  /\ optLightning[2] = "module"

\* C20: lightningcss.default() is invoked at most once, and transform() is
\* never invoked before that initialisation has completed.
C20_InitialisedAtMostOnce ==
  /\ initInvocations <= 1
  /\ ~transformBeforeInit

\* The reference hash of a (property, value): the fold over
\* `<property>:<JSON-stringified value>:`, base 36, letter first.
ReferenceHash(property, value) ==
  LetterFirst(Base36(MurmurFrom(property \o ":\"" \o value \o "\":", 1, [hi |-> 0, lo |-> 0])))

\* The part of a class name after its last `_`.
HashSuffix(className) ==
  LET at == {i \in 1..Len(className) : CharAt(className, i) = "_"}
  IN SubSeq(className, (CHOOSE i \in at : \A j \in at : j <= i) + 1, Len(className))

\* C14: the hash in every class name transformStyles returns is the
\* reference (MurmurHash2) hash of that pair's property and value.
C14_HashIsReferenceHash ==
  \A i \in 1..Len(tsCalls) :
    tsCalls[i].fn = "transformStyles" =>
      LET pairs == WellFormedPairs(tsCalls[i].styles)
          tokens == TokensOf(tsCalls[i].result)
      IN \A a \in 1..Len(pairs) :
           HashSuffix(tokens[a])
             = ReferenceHash(SubSeq(pairs[a], 1, IndexOf(pairs[a], ":") - 1),
                             SubSeq(pairs[a], IndexOf(pairs[a], ":") + 1, Len(pairs[a])))

\* The property and the value of a well-formed pair.
PairProperty(pair) == SubSeq(pair, 1, IndexOf(pair, ":") - 1)
PairValue(pair) == SubSeq(pair, IndexOf(pair, ":") + 1, Len(pair))

\* The declared value of a rule `.class { property: value; }`.
DeclaredValue(rule) ==
  SubSeq(rule, IndexFrom(rule, ": ", IndexOf(rule, " { ")) + 2, Len(rule) - 3)

\* A bare number: digits, optionally with a fraction and a sign.
IsBareNumber(value) ==
  LET body == IF StartsWith(value, "-") THEN SubSeq(value, 2, Len(value)) ELSE value
      dots == {i \in 1..Len(body) : CharAt(body, i) = "."}
  IN /\ body # ""
     /\ \A i \in 1..Len(body) : IsDigit(CharAt(body, i)) \/ i \in dots
     /\ Cardinality(dots) <= 1
     /\ 1 \notin dots /\ Len(body) \notin dots

\* The margin / padding / gap family.
IsSpacingProperty(property) ==
  \/ property \in {"m", "mt", "mr", "mb", "ml", "mx", "my",
                   "p", "pt", "pr", "pb", "pl", "px", "py", "gap"}
  \/ StartsWith(property, "margin")
  \/ StartsWith(property, "padding")

IsUnitlessProperty(property) ==
  property \in {"opacity", "zIndex", "fontWeight", "lineHeight", "flex"}

\* C15: in every rule generateAllCSS emits, a bare number is a quarter of
\* itself in rem for a margin / padding / gap property, itself for a unitless
\* property and itself with `px` for any other property (w, h, minW, minH,
\* maxW, maxH among them); any other value is passed through.
C15_ValueNormalisation ==
  \A i \in 1..Len(tsCalls) :
    tsCalls[i].fn = "generateAllCSS" =>
      LET pairs == WellFormedPairs(tsCalls[i].styles)
          rules == RulesOf(tsCalls[i].result)
      IN \A a \in 1..Len(pairs) :
           LET property == PairProperty(pairs[a])
               value == PairValue(pairs[a])
               out == DeclaredValue(rules[a])
           IN IF ~IsBareNumber(value) THEN out = value
              ELSE IF IsSpacingProperty(property)
                   THEN /\ Len(out) > 3
                        /\ SubSeq(out, Len(out) - 2, Len(out)) = "rem"
                        /\ IsBareNumber(SubSeq(out, 1, Len(out) - 3))
                        /\ Shortest(parseFloat(SubSeq(out, 1, Len(out) - 3)))
                             = Shortest(TimesQuarter(parseFloat(value)))
                   ELSE IF IsUnitlessProperty(property) THEN out = value
                        ELSE out = value \o "px"

\* The class selector of a rule `.class { property: value; }`.
ClassSelector(rule) == SubSeq(rule, 2, IndexOf(rule, " { ") - 1)

\* C16: transformStyles returns one class name per well-formed pair, in input
\* order, separated by single spaces with no space in front, behind or
\* doubled, and these are the class selectors generateAllCSS emits for the
\* same input.
C16_ClassNamesSpaceJoined ==
  \A i \in 1..Len(tsCalls) :
    tsCalls[i].fn = "transformStyles" =>
      LET pairs == WellFormedPairs(tsCalls[i].styles)
          tokens == TokensOf(tsCalls[i].result)
      IN /\ tsCalls[i].result = Join(tokens, " ")
         /\ Len(tokens) = Len(pairs)
         /\ \A a \in 1..Len(pairs) :
              StartsWith(tokens[a],
                         tsCalls[i].prefix \o "_" \o PairProperty(pairs[a]) \o "_")
         /\ \A j \in 1..Len(tsCalls) :
              (/\ tsCalls[j].fn = "generateAllCSS"
               /\ tsCalls[j].styles = tsCalls[i].styles
               /\ tsCalls[j].prefix = tsCalls[i].prefix)
                => LET rules == RulesOf(tsCalls[j].result)
                   IN [k \in 1..Len(rules) |-> ClassSelector(rules[k])] = tokens

\* C17: in production mode, over the lifetime of one generator, reset()
\* included, no short name is handed out for two different keys.
C17_NoNameReuseAcrossReset ==
  cngConfig.minifyClassNames =>
    \A x \in cngIssued, y \in cngIssued : x[2] = y[2] => x[1] = y[1]

ShareOf(shade, mixed) ==
  IF shade.kind = "color-mix" /\ shade.color1 = mixed
  THEN shade.percentage ELSE [num |-> 0, den |-> 1]

\* fraction a <= fraction b
FractionLeq(a, b) == a.num * b.den <= b.num * a.den

\* C19: the scale has `steps` shades, the unmodified base colour at index
\* floor(steps/2), a share of white that does not increase from index 0
\* towards the midpoint and a share of black that does not decrease from the
\* midpoint to the last index.
C19_ScaleLightToDark ==
  csArgs.called =>
    LET steps == IF csArgs.options.steps = NoSteps THEN 9 ELSE csArgs.options.steps
        midpoint == steps \div 2
    IN  /\ Len(csScale) = steps
        /\ csScale[midpoint + 1] = PlainColor(csArgs.baseColor)
        /\ \A i \in 1..midpoint, j \in 1..midpoint :
             i < j => FractionLeq(ShareOf(csScale[j], "white"), ShareOf(csScale[i], "white"))
        /\ \A i \in (midpoint + 2)..steps, j \in (midpoint + 2)..steps :
             i < j => FractionLeq(ShareOf(csScale[i], "black"), ShareOf(csScale[j], "black"))

\* The last transform() call skipped its file or had Babel throw.
SkippedOrThrown(call) ==
  /\ call.called
  /\ \/ ~IdIsTs(call.id)
     \/ IdInNodeModules(call.id)
     \/ call.code # "silk"
     \/ call.outcome = "throw"

\* C21: a transform() whose file is skipped or whose Babel transform throws
\* returns null (it neither rejects nor returns code) and leaves the rule
\* registry exactly as it was.
C21_SkipOrThrowReturnsNull ==
  /\ [](SkippedOrThrown(lastCall) => lastReturn = "null")
  /\ [][SkippedOrThrown(lastCall') => cssRules' = cssRules]_vars

\* Babel threw on a silk file while the registry already held rules.
C21_Witness ==
  /\ lastCall = [called |-> TRUE, code |-> "silk", id |-> "a.tsx", outcome |-> "throw"]
  /\ Len(cssRules) >= 2
  /\ lastReturn = "null"

Placeholders == {"/* No CSS generated */", "/* Silk CSS generation failed */"}

\* C22: no buildStart call rejects, and one whose scan rejects leaves the
\* failure comment as module content; load() of the resolved id is a string,
\* never null: the CSS of the scan that resolved last, or a placeholder
\* comment, and a placeholder when no scan has resolved; a handleHotUpdate
\* whose scan rejects leaves generatedCSS as it was.
C22_LoadNeverNull ==
  /\ [](/\ \A i \in 1..Len(vmCalls) : ~vmCalls[i].threw
        /\ ~load(resolvedVirtualModuleId).isNull
        /\ \/ load(resolvedVirtualModuleId).text \in Placeholders
           \/ /\ ~vmLastSuccess.isNull
              /\ load(resolvedVirtualModuleId) = vmLastSuccess)
  /\ [][\A i \in 1..Len(vmCalls) :
          (vmCalls[i].pc = "scanning" /\ vmCalls'[i].pc = "done" /\ ~vmCalls'[i].resolved)
            => IF vmCalls[i].hook = "buildStart"
               THEN vmGeneratedCSS' = Str("/* Silk CSS generation failed */")
               ELSE vmGeneratedCSS' = vmGeneratedCSS]_vars

\* A hot-update regeneration failed after the build's scan had succeeded, and
\* the CSS of the build is still served.
C22_Witness ==
  /\ Len(vmCalls) = 2
  /\ vmCalls[1] = [hook |-> "buildStart", pc |-> "done", resolved |-> TRUE,
                   css |-> ".a { color: red; }", threw |-> FALSE]
  /\ vmCalls[2].hook = "handleHotUpdate" /\ vmCalls[2].pc = "done" /\ ~vmCalls[2].resolved
  /\ load(resolvedVirtualModuleId) = Str(".a { color: red; }")

\* C23: in dev mode, once every regeneration has settled, load() serves the
\* CSS of the handleHotUpdate regeneration that was started last.
C23_NewestRegenerationWins ==
  (/\ vmCalls # <<>>
   /\ \A i \in 1..Len(vmCalls) :
        vmCalls[i].hook = "handleHotUpdate" /\ vmCalls[i].pc = "done" /\ vmCalls[i].resolved)
    => vmGeneratedCSS = Str(vmCalls[Len(vmCalls)].css)

\* The declarations the output holds for an input rule's selector: the
\* group's base for a base rule, else the nested entry the rule is filed under.
HeldFor(grouped, selector) ==
  LET baseSelector == extractBaseSelector(selector)
      nestedSelector == ReplaceFirst(selector, baseSelector, "&")
  IN IF ~MapHas(grouped, baseSelector) THEN <<>>
     ELSE IF selector = baseSelector THEN MapGetV(grouped, baseSelector).base
     ELSE IF MapHas(MapGetV(grouped, baseSelector).nested, nestedSelector)
          THEN MapGetV(MapGetV(grouped, baseSelector).nested, nestedSelector)
          ELSE <<>>

\* C24: every property/value pair of every well-formed input rule is in the
\* output under that rule's selector, unless a later rule for the same
\* selector declares the same property.
C24_NoDeclarationLost ==
  \A i \in 1..Len(grRules) :
    RuleMatches(grRules[i]) =>
      LET parsed == parseRule(grRules[i])
          held == HeldFor(grGrouped, parsed.selector)
      IN \A d \in 1..Len(parsed.declarations) :
           \/ \E j \in (i + 1)..Len(grRules) :
                /\ RuleMatches(grRules[j])
                /\ parseRule(grRules[j]).selector = parsed.selector
                /\ MapHas(parseRule(grRules[j]).declarations, parsed.declarations[d].k)
           \/ /\ MapHas(held, parsed.declarations[d].k)
              /\ MapGetV(held, parsed.declarations[d].k) = parsed.declarations[d].v

\* For a nested key: the fragments that give the inner property a value
\* other than undefined / null.
InnerValueDefiners(key, prop) ==
  {i \in Definers(key) : ~IsNullish(Prop(Prop(StyleObjects[i], key), prop))}

\* C25: a key that some argument defines keeps, in the result, the value of
\* the last argument that defines it, whatever undefined / null a later
\* argument carries there; the same holds for every property inside a `_` /
\* `@` fragment.
C25_NullishNeverErases ==
  \A key \in ArgKeys :
    Definers(key) # {} =>
      IF IsNestedKey(key)
      THEN \A prop \in UNION {MapKeys(Prop(StyleObjects[i], key).o) : i \in Definers(key)} :
             InnerValueDefiners(key, prop) # {} =>
               Prop(Prop(msResult, key), prop)
                 = Prop(Prop(StyleObjects[LastOf(InnerValueDefiners(key, prop))], key), prop)
      ELSE Prop(msResult, key) = Prop(StyleObjects[LastOf(Definers(key))], key)

\* The value the caller passes for a dimension, or its default when the
\* caller passes none or passes undefined.
PassedOrDefault(dimension) ==
  IF MapHas(cvProps, dimension) /\ MapGetV(cvProps, dimension) # Undefined
  THEN MapGetV(cvProps, dimension)
  ELSE IF MapHas(cvConfig.defaultVariants, dimension)
       THEN MapGetV(cvConfig.defaultVariants, dimension)
       ELSE Undefined

\* C26: a dimension the caller leaves out, or passes as undefined, takes its
\* defaultVariants entry: that entry's style fragment is among the styles
\* merged, and the compound variants matched are those whose `when` clauses
\* all agree with the passed-or-default values.
C26_DefaultsFillMissingDimensions ==
  cvCalled =>
    /\ \A dimension \in MapKeys(cvConfig.defaultVariants) :
         (~MapHas(cvProps, dimension) \/ MapGetV(cvProps, dimension) = Undefined)
           => VariantStyle(cvConfig, dimension, MapGetV(cvConfig.defaultVariants, dimension))
                \in Range(cvStyles)
    /\ \A i \in 1..Len(cvConfig.compoundVariants) :
         (i \in Range(cvMatched))
           <=> \A w \in 1..Len(cvConfig.compoundVariants[i].when) :
                 PassedOrDefault(cvConfig.compoundVariants[i].when[w].k)
                   = cvConfig.compoundVariants[i].when[w].v

\* C27: for every argument list the mergeStyles of the Svelte bindings
\* returns the style object the core mergeStyles returns.
C27_SvelteMergeIsCoreMerge == svResult = mergeStyles(svArgs)

\* C28: with nesting disabled or legacyFallback enabled, converting the
\* output of convertToNestedCSS again returns that output unchanged.
C28_ExpandedConversionIdempotent ==
  (~cvtConfig.enabled \/ cvtConfig.legacyFallback)
    => convertToNestedCSS(cvtResult, cvtConfig) = cvtResult

\* The number of places of `html` at which `pat` occurs.
CountOf(html, pat) ==
  Cardinality({i \in 1..(Len(html) - Len(pat) + 1) : SubSeq(html, i, i + Len(pat) - 1) = pat})

\* C29: after generateBundle has run in build mode with non-empty CSS, every
\* HTML asset of the bundle holds the stylesheet link tag exactly once and no
\* inline `<style data-silk>` block.
C29_OneStylesheetLink ==
  vbGenerated = "emitted" =>
    \A i \in 1..Len(vbBundle) :
      EndsWith(vbBundle[i].k, ".html") =>
        /\ CountOf(vbBundle[i].v,
                   "<link rel=\"stylesheet\" href=\"/" \o vbOptions.outputFile \o "\">") = 1
        /\ CountOf(vbBundle[i].v, "<style data-silk>") = 0

\* C30: after any mergeStyles call every object of the caller, style object
\* or fragment, is as it was, and the returned object and each fragment it
\* holds under a `_` / `@` key are objects made by the call, which no
\* argument refers to.
C30_ArgumentsUntouched ==
  /\ SubSeq(hpHeap, 1, Len(CallerHeap)) = CallerHeap
  /\ hpResult # 0 =>
       /\ hpResult > Len(CallerHeap)
       /\ \A i \in 1..Len(hpHeap[hpResult]) :
            (IsNestedKey(hpHeap[hpResult][i].k) /\ IsRef(hpHeap[hpResult][i].v))
              => hpHeap[hpResult][i].v.o[1] > Len(CallerHeap)

\* Two arguments that hold the same fragment object under `_hover`, and a
\* third one whose `_hover` fragment was merged with it.
C30_Witness ==
  /\ hpArgs = <<Ref(4), Ref(6), Ref(5)>>
  /\ MapHas(hpHeap[hpResult], "_hover")
  /\ Deref(hpHeap, MapGetV(hpHeap[hpResult], "_hover"))
       = <<[k |-> "bg", v |-> Scalar("red")], [k |-> "color", v |-> Scalar("blue")]>>

====
